---- MODULE Spec2Model ----
(***************************************************************************)
(* Model of the photography import / cleanup scripts of surreal-mind:      *)
(*   - the record extractor  (scripts/import_skater_requests.py:           *)
(*     parse_skater_name, parse_status, parse_markdown),                   *)
(*   - the duplicate resolver (scripts/investigate_duplicates.py:          *)
(*     analyze_duplicates) and the deletion step                           *)
(*     (scripts/cleanup_duplicates.py: cleanup_duplicates).                *)
(*                                                                         *)
(* A Python str is a sequence of one-character strings, so that strip,     *)
(* split, replace, startswith, "in" and the regular expressions are        *)
(* computed character by character as the interpreter computes them.       *)
(* An Optional value is a sequence of length 0 (None) or 1 (the value).    *)
(***************************************************************************)
EXTENDS Integers, Sequences, FiniteSets, TLC

VARIABLES
    \* ---- record extractor (parse_markdown) ----
    vocab,                 \* the line shapes the document is written with
    doc,                   \* the lines read so far, in order
    section,               \* parse_markdown's section argument
    skaters,               \* the output list
    current_skater,        \* the accumulator (None or one entry)
    current_section_name,  \* None or the last header's name
    pc,                    \* "reading" | "done" | "raised"
    \* ---- parse_status called on its own ----
    status_line,           \* the argument
    status_result,         \* None or the returned triple
    \* ---- duplicate resolver and deletion step ----
    relations,             \* the competed_in table, in query order
    next_id,               \* the store's next record identifier
    plan_file,             \* deletion_plan.json: None or its content
    deletion_plan,         \* the list the last resolver run built (None: returned early)
    report,                \* the KEEP/DELETE recommendations the last run printed
    analyzed,              \* the collection the last resolver run read (None: never ran)
    rerun,                 \* the last resolver run directly followed another one
    resolver_raised,       \* the last resolver run ended with a KeyError
    cleanup_log,           \* None or the last deletion step's outcome
    \* ---- the completeness score computed on its own ----
    score_record,          \* the relation record
    score_result,          \* None or the score
    \* ---- import_to_surrealdb ----
    import_list,           \* the skaters argument
    db_competition,        \* the competition table, rows in insertion order
    db_skater,             \* the skater table
    db_event,              \* the event table
    competed_in,           \* the competed_in relations the imports created
    import_runs,           \* the number of import runs made
    import_clean,          \* no statement of any run has failed
    import_log,            \* None or what the last run printed
    \* ---- MCPRunner and the server behind its pipe ----
    request_id,            \* self.request_id
    calls,                 \* the calls of send_request, in order, with their outcome
    pipe,                  \* the lines the server wrote and the runner has not read
    server_closed,         \* the server has closed its output
    lines_written          \* the number of lines the server has written

xvars == <<vocab, doc, section, skaters, current_skater, current_section_name, pc>>
svars == <<status_line, status_result>>
rvars == <<relations, next_id, plan_file, deletion_plan, report, analyzed, rerun,
           resolver_raised, cleanup_log>>
cvars == <<score_record, score_result>>
ivars == <<import_list, db_competition, db_skater, db_event, competed_in,
           import_runs, import_clean, import_log>>
mvars == <<request_id, calls, pipe, server_closed, lines_written>>
vars == <<xvars, svars, rvars, cvars, ivars, mvars>>

(***************************************************************************)
(* Bounds of the model.                                                    *)
(***************************************************************************)
MaxDocLen == 4
MaxRecords == 3
MaxImports == 2
MaxRequests == 2
MaxLines == 3

(***************************************************************************)
(* Optional values.                                                        *)
(***************************************************************************)
None == <<>>
Some(x) == <<x>>

Min(S) == CHOOSE x \in S : \A y \in S : x <= y

(***************************************************************************)
(* Python str operations.                                                  *)
(***************************************************************************)
Whitespace == {" ", "\t"}
UpperCase == {"A","B","C","D","E","F","G","H","I","J","K","L","M",
              "N","O","P","Q","R","S","T","U","V","W","X","Y","Z"}
DigitChars == <<"0","1","2","3","4","5","6","7","8","9">>
IsDigit(c) == \E i \in 1..10 : DigitChars[i] = c
DigitVal(c) == (CHOOSE i \in 1..10 : DigitChars[i] = c) - 1

\* s.startswith(p) at offset i (1-based): s[i-1:].startswith(p)
MatchAt(s, p, i) ==
    /\ i >= 1
    /\ i + Len(p) - 1 <= Len(s)
    /\ SubSeq(s, i, i + Len(p) - 1) = p

StartsWith(s, p) == MatchAt(s, p, 1)

\* s.find(p) + 1: the first offset where p occurs, 0 when it does not
Find(s, p) ==
    LET hits == {i \in 1..(Len(s) + 1) : MatchAt(s, p, i)}
    IN  IF hits = {} THEN 0 ELSE Min(hits)

\* p in s
Contains(s, p) == Find(s, p) /= 0

\* s.rstrip()
RStrip(s) ==
    LET keep == {i \in 1..Len(s) : s[i] \notin Whitespace}
    IN  IF keep = {} THEN <<>> ELSE SubSeq(s, 1, CHOOSE i \in keep : \A j \in keep : j <= i)

\* s.lstrip()
LStrip(s) ==
    LET keep == {i \in 1..Len(s) : s[i] \notin Whitespace}
    IN  IF keep = {} THEN <<>> ELSE SubSeq(s, Min(keep), Len(s))

\* s.strip()
Strip(s) == LStrip(RStrip(s))

\* s.replace(old, ''): every non-overlapping occurrence, left to right
RECURSIVE Remove(_, _)
Remove(s, old) ==
    LET i == Find(s, old)
    IN  IF i = 0 \/ old = <<>> THEN s
        ELSE SubSeq(s, 1, i - 1) \o Remove(SubSeq(s, i + Len(old), Len(s)), old)

\* s.split(sep, 1)[1], for a sep that occurs in s
AfterFirst(s, sep) == SubSeq(s, Find(s, sep) + Len(sep), Len(s))

\* the first whitespace-separated token of a string with no leading whitespace
FirstToken(s) ==
    LET ws == {i \in 1..Len(s) : s[i] \in Whitespace}
    IN  IF ws = {} THEN s ELSE SubSeq(s, 1, Min(ws) - 1)

\* s.split(None, 1): one or two parts
SplitOnce(s) ==
    LET t == LStrip(s)
        head == FirstToken(t)
        rest == RStrip(LStrip(SubSeq(t, Len(head) + 1, Len(t))))
    IN  IF t = <<>> THEN <<>>
        ELSE IF rest = <<>> THEN <<head>>
        ELSE <<head, LStrip(SubSeq(t, Len(head) + 1, Len(t)))>>

\* s.split(): all whitespace-separated tokens
RECURSIVE Split(_)
Split(s) ==
    LET t == LStrip(s)
        head == FirstToken(t)
    IN  IF t = <<>> THEN <<>>
        ELSE <<head>> \o Split(SubSeq(t, Len(head) + 1, Len(t)))

\* the value of a run of decimal digits
RECURSIVE DigitsValue(_)
DigitsValue(ds) ==
    IF ds = <<>> THEN 0
    ELSE 10 * DigitsValue(SubSeq(ds, 1, Len(ds) - 1)) + DigitVal(ds[Len(ds)])

\* int(tok) for a token without whitespace: None when int() raises ValueError.
\* An optional sign, then digits, single underscores allowed between digits.
IntOf(tok) ==
    LET signed == tok /= <<>> /\ tok[1] \in {"+", "-"}
        body == IF signed THEN Tail(tok) ELSE tok
        wellFormed ==
            /\ body /= <<>>
            /\ \A i \in 1..Len(body) : IsDigit(body[i]) \/ body[i] = "_"
            /\ IsDigit(body[1]) /\ IsDigit(body[Len(body)])
            /\ \A i \in 1..(Len(body) - 1) : ~(body[i] = "_" /\ body[i + 1] = "_")
        digits == SelectSeq(body, IsDigit)
        mag == DigitsValue(digits)
    IN  IF ~wellFormed THEN None
        ELSE IF signed /\ tok[1] = "-" THEN Some(0 - mag) ELSE Some(mag)

(***************************************************************************)
(* float(text) for a text that matches \d+\.?\d*: the decimal value        *)
(* m / 10^e, with the trailing zeros of the fraction dropped.              *)
(***************************************************************************)
RECURSIVE DropTrailingZeros(_)
DropTrailingZeros(ds) ==
    IF ds /= <<>> /\ ds[Len(ds)] = "0" THEN DropTrailingZeros(SubSeq(ds, 1, Len(ds) - 1))
    ELSE ds

FloatOf(text) ==
    LET dot == Find(text, <<".">>)
        whole == IF dot = 0 THEN text ELSE SubSeq(text, 1, dot - 1)
        frac == IF dot = 0 THEN <<>> ELSE DropTrailingZeros(SubSeq(text, dot + 1, Len(text)))
    IN  [m |-> DigitsValue(whole \o frac), e |-> Len(frac)]

(***************************************************************************)
(* STATUS_PATTERNS: the regular expressions, matched as re does.           *)
(***************************************************************************)
KwEvent == <<"E","v","e","n","t"," ">>
KwEmail == <<"E","m","a","i","l",":">>
KwStatus == <<"S","t","a","t","u","s",":">>
KwNote == <<"N","o","t","e",":">>
KwHeader == <<"#","#">>
SectionAll == <<"A","l","l">>
PatFullHead == <<"P","u","r","c","h","a","s","e","d"," ","-"," ","$">>
PatNetHead == <<"P","u","r","c","h","a","s","e","d"," ","(","N","e","t",":"," ","$">>
PatNetMid == <<" ","(","N","e","t",":"," ","$">>
PatClose == <<")">>
PatDollar == <<"$">>
PatNetTail == <<" ","n","e","t">>

\* the last offset of the run of digits that starts at i (i - 1 when there is none)
DigitRunEnd(t, i) ==
    LET stops == {j \in i..Len(t) : ~IsDigit(t[j])}
    IN  IF i > Len(t) THEN i - 1
        ELSE IF stops = {} THEN Len(t) ELSE Min(stops) - 1

\* (\d+\.?\d*) at offset i: the last offset of the group, 0 when \d+ fails.
\* Every pattern continues with a character that is neither a digit nor a
\* dot, so only the longest match of the group can be followed by it.
NumberEnd(t, i) ==
    LET d1 == DigitRunEnd(t, i)
        dot == d1 + 1 <= Len(t) /\ t[d1 + 1] = "."
    IN  IF d1 < i THEN 0
        ELSE IF dot THEN DigitRunEnd(t, d1 + 2) ELSE d1

\* r'Purchased - \$(\d+\.?\d*) \(Net: \$(\d+\.?\d*)\)' matched at offset i
PurchasedFullAt(t, i) ==
    LET g1 == i + Len(PatFullHead)
        e1 == NumberEnd(t, g1)
        g2 == e1 + 1 + Len(PatNetMid)
        e2 == NumberEnd(t, g2)
    IN  IF /\ MatchAt(t, PatFullHead, i)
           /\ e1 /= 0
           /\ MatchAt(t, PatNetMid, e1 + 1)
           /\ e2 /= 0
           /\ MatchAt(t, PatClose, e2 + 1)
        THEN Some(<<SubSeq(t, g1, e1), SubSeq(t, g2, e2)>>)
        ELSE None

\* r'Purchased \(Net: \$(\d+\.?\d*)\)' matched at offset i
PurchasedNetAt(t, i) ==
    LET g1 == i + Len(PatNetHead)
        e1 == NumberEnd(t, g1)
    IN  IF /\ MatchAt(t, PatNetHead, i)
           /\ e1 /= 0
           /\ MatchAt(t, PatClose, e1 + 1)
        THEN Some(<<SubSeq(t, g1, e1)>>)
        ELSE None

\* r'\$(\d+\.?\d*) net' matched at offset i
NetOnlyAt(t, i) ==
    LET g1 == i + Len(PatDollar)
        e1 == NumberEnd(t, g1)
    IN  IF /\ MatchAt(t, PatDollar, i)
           /\ e1 /= 0
           /\ MatchAt(t, PatNetTail, e1 + 1)
        THEN Some(<<SubSeq(t, g1, e1)>>)
        ELSE None

\* the groups of the leftmost of the matches <<offset, groups>>: None when there is none
Leftmost(matches) ==
    LET hits == {m \in matches : m[2] /= None}
    IN  IF hits = {} THEN None
        ELSE (CHOOSE m \in hits : \A other \in hits : m[1] <= other[1])[2]

\* pattern.search(t)
SearchPurchasedFull(t) == Leftmost({<<i, PurchasedFullAt(t, i)>> : i \in 1..Len(t)})
SearchPurchasedNet(t) == Leftmost({<<i, PurchasedNetAt(t, i)>> : i \in 1..Len(t)})
SearchNetOnly(t) == Leftmost({<<i, NetOnlyAt(t, i)>> : i \in 1..Len(t)})

(***************************************************************************)
(* parse_status: (gallery_status, gross_amount, net_amount)                *)
(***************************************************************************)
StatusText(line) == Strip(Remove(line, KwStatus))

\* variant: the two groups of the full pattern taken in the other order
parse_status_swapped(line) ==
    LET status_text == StatusText(line)
        full == SearchPurchasedFull(status_text)
        net == SearchPurchasedNet(status_text)
        short == SearchNetOnly(status_text)
    IN  IF full /= None
            THEN <<"purchased", Some(FloatOf(full[1][2])), Some(FloatOf(full[1][1]))>>
        ELSE IF net /= None
            THEN <<"purchased", None, Some(FloatOf(net[1][1]))>>
        ELSE IF short /= None
            THEN <<"purchased", None, Some(FloatOf(short[1][1]))>>
        ELSE <<"sent", None, None>>
\* variant: the '$N net' pattern tried before the two 'Purchased' patterns
parse_status_shorthand_first(line) ==
    LET status_text == StatusText(line)
        full == SearchPurchasedFull(status_text)
        net == SearchPurchasedNet(status_text)
        short == SearchNetOnly(status_text)
    IN  IF short /= None
            THEN <<"purchased", None, Some(FloatOf(short[1][1]))>>
        ELSE IF full /= None
            THEN <<"purchased", Some(FloatOf(full[1][1])), Some(FloatOf(full[1][2]))>>
        ELSE IF net /= None
            THEN <<"purchased", None, Some(FloatOf(net[1][1]))>>
        ELSE <<"sent", None, None>>
\* variant: a text that matches no pattern left as 'pending'
parse_status_pending(line) ==
    LET status_text == StatusText(line)
        full == SearchPurchasedFull(status_text)
        net == SearchPurchasedNet(status_text)
        short == SearchNetOnly(status_text)
    IN  IF full /= None
            THEN <<"purchased", Some(FloatOf(full[1][1])), Some(FloatOf(full[1][2]))>>
        ELSE IF net /= None
            THEN <<"purchased", None, Some(FloatOf(net[1][1]))>>
        ELSE IF short /= None
            THEN <<"purchased", None, Some(FloatOf(short[1][1]))>>
        ELSE <<"pending", None, None>>
\* parse_status, lines 52-70
parse_status(line) ==
    LET status_text == StatusText(line)
        full == SearchPurchasedFull(status_text)
        net == SearchPurchasedNet(status_text)
        short == SearchNetOnly(status_text)
    IN  IF full /= None
            THEN <<"purchased", Some(FloatOf(full[1][1])), Some(FloatOf(full[1][2]))>>
        ELSE IF net /= None
            THEN <<"purchased", None, Some(FloatOf(net[1][1]))>>
        ELSE IF short /= None
            THEN <<"purchased", None, Some(FloatOf(short[1][1]))>>
        ELSE <<"sent", None, None>>

(***************************************************************************)
(* parse_skater_name: (first_name, last_name)                              *)
(***************************************************************************)
\* variant: the line split at every whitespace, the second token the first name
parse_skater_name_second_token(name_line) ==
    LET parts == Split(Strip(name_line))
    IN  IF Len(parts) >= 2 THEN <<parts[2], parts[1]>>
        ELSE <<parts[1], parts[1]>>
\* variant: the two parts returned in the order they are written
parse_skater_name_unswapped(name_line) ==
    LET parts == SplitOnce(Strip(name_line))
    IN  IF Len(parts) = 2 THEN <<parts[1], parts[2]>>
        ELSE <<parts[1], parts[1]>>
\* parse_skater_name, lines 35-39
parse_skater_name(name_line) ==
    LET parts == SplitOnce(Strip(name_line))
    IN  IF Len(parts) = 2 THEN <<parts[2], parts[1]>>
        ELSE <<parts[1], parts[1]>>

(***************************************************************************)
(* parse_markdown, one line at a time.                                     *)
(***************************************************************************)
\* the dict a skater name line starts
NewSkater(line, section_name) ==
    LET name == parse_skater_name(line)
    IN  [first_name |-> name[1],
         last_name |-> name[2],
         events |-> <<>>,
         email |-> None,
         gallery_status |-> "pending",
         gross_amount |-> None,
         net_amount |-> None,
         notes |-> <<>>,
         section |-> section_name]

\* line.startswith('##')
IsHeader(line) == StartsWith(line, KwHeader)

\* line.replace('##', '').strip()
HeaderName(line) == Strip(Remove(line, KwHeader))

\* variant: no line is skipped
SkipNoSectionCheck(sect, section_name) == FALSE
\* section != 'All' and current_section_name != section
SkipLine(sect, section_name) == sect /= SectionAll /\ section_name /= Some(sect)

\* variant: a line that starts with 'Event ' is never a name line
IsSkaterLineNotEvent(line) ==
    /\ line /= <<>>
    /\ ~StartsWith(line, <<" ">>)
    /\ line[1] \in UpperCase
    /\ ~StartsWith(line, KwEvent)
\* line and not line.startswith(' ') and line[0].isupper()
IsSkaterLine(line) ==
    /\ line /= <<>>
    /\ ~StartsWith(line, <<" ">>)
    /\ line[1] \in UpperCase

\* line.strip().startswith('Event ')
IsEventLine(line) == StartsWith(Strip(line), KwEvent)

\* int(line.strip().split()[1]): None when int() raises
EventNumber(line) == IntOf(Split(Strip(line))[2])

\* 'Email:' in line, 'Status:' in line, 'Note:' in line
IsEmailLine(line) == Contains(line, KwEmail)
IsStatusLine(line) == Contains(line, KwStatus)
IsNoteLine(line) == Contains(line, KwNote)

\* variant: the guard without the test of the events list
ShouldEmitAlways(cs) == cs /= None
\* current_skater and current_skater['events']
ShouldEmit(cs) == cs /= None /\ cs[1].events /= <<>>

\* variant: the entry put in front of the list
EmitInFront(out, cs) == IF ShouldEmit(cs) THEN <<cs[1]>> \o out ELSE out
\* variant: the entry appended twice
EmitTwice(out, cs) == IF ShouldEmit(cs) THEN Append(Append(out, cs[1]), cs[1]) ELSE out
\* skaters.append(current_skater) under the guard above
Emit(out, cs) == IF ShouldEmit(cs) THEN Append(out, cs[1]) ELSE out

\* variant: a number already in the list is not appended again
AppendEventOnce(events, event_num) ==
    IF \E i \in 1..Len(events) : events[i] = event_num THEN events
    ELSE Append(events, event_num)
\* current_skater['events'].append(event_num)
AppendEvent(events, event_num) == Append(events, event_num)

\* variant: the text after the keyword as it is written
EmailOfUntrimmed(line) ==
    LET email == AfterFirst(line, KwEmail)
    IN  IF email /= <<>> THEN Some(email) ELSE None
\* email = line.split('Email:', 1)[1].strip(); email if email else None
EmailOf(line) ==
    LET email == Strip(AfterFirst(line, KwEmail))
    IN  IF email /= <<>> THEN Some(email) ELSE None

\* variant: the accumulator starts as an entry without a name
InitialSkaterBlank ==
    Some([first_name |-> <<>>, last_name |-> <<>>, events |-> <<>>, email |-> None,
          gallery_status |-> "pending", gross_amount |-> None, net_amount |-> None,
          notes |-> <<>>, section |-> None])
\* current_skater = None
InitialSkater == None

\* variant: a header closes the entry being accumulated
SkaterAfterHeaderReset(cs) == None
\* current_skater after the header branch: the branch assigns
\* current_section_name and continues
SkaterAfterHeader(cs) == cs

\* variant: an amount the status line does not give keeps its earlier value
WithStatusKeepingAmounts(entry, st) ==
    [entry EXCEPT !.gallery_status = st[1],
                  !.gross_amount = IF st[2] = None THEN @ ELSE st[2],
                  !.net_amount = IF st[3] = None THEN @ ELSE st[3]]
\* the three assignments of the status branch, lines 136-138
WithStatus(entry, st) ==
    [entry EXCEPT !.gallery_status = st[1],
                  !.gross_amount = st[2],
                  !.net_amount = st[3]]

\* The body of the for loop on one line of the file: the locals after it,
\* raised = TRUE when the body raises instead (the locals are then as before).
ProcessLine(out, cs, section_name, sect, raw) ==
    LET line == RStrip(raw)
        same == [skaters |-> out, current_skater |-> cs,
                 current_section_name |-> section_name, raised |-> FALSE]
    IN  IF IsHeader(line) THEN
            [same EXCEPT !.current_section_name = Some(HeaderName(line)),
                         !.current_skater = SkaterAfterHeader(cs)]
        ELSE IF SkipLine(sect, section_name) THEN same
        ELSE IF IsSkaterLine(line) THEN
            [same EXCEPT !.skaters = Emit(out, cs),
                         !.current_skater = Some(NewSkater(line, section_name))]
        ELSE IF cs /= None /\ IsEventLine(line) THEN
            IF EventNumber(line) = None THEN [same EXCEPT !.raised = TRUE]
            ELSE [same EXCEPT !.current_skater =
                     Some([cs[1] EXCEPT !.events = AppendEvent(@, EventNumber(line)[1])])]
        ELSE IF cs /= None /\ IsEmailLine(line) THEN
            [same EXCEPT !.current_skater = Some([cs[1] EXCEPT !.email = EmailOf(line)])]
        ELSE IF cs /= None /\ IsStatusLine(line) THEN
            [same EXCEPT !.current_skater = Some(WithStatus(cs[1], parse_status(line)))]
        ELSE IF cs /= None /\ IsNoteLine(line) THEN
            [same EXCEPT !.current_skater =
                Some([cs[1] EXCEPT !.notes = Append(@, Strip(AfterFirst(line, KwNote)))])]
        ELSE same

\* the for loop over the lines of the file
RECURSIVE RunLines(_, _, _)
RunLines(st, lines, sect) ==
    IF lines = <<>> \/ st.raised THEN st
    ELSE RunLines(ProcessLine(st.skaters, st.current_skater, st.current_section_name,
                              sect, Head(lines)),
                  Tail(lines), sect)

\* parse_markdown on a whole file: the returned list, or raised
parse_markdown(lines, sect) ==
    LET st == RunLines([skaters |-> <<>>, current_skater |-> InitialSkater,
                        current_section_name |-> None, raised |-> FALSE], lines, sect)
    IN  IF st.raised THEN [raised |-> TRUE, skaters |-> <<>>]
        ELSE [raised |-> FALSE, skaters |-> Emit(st.skaters, st.current_skater)]

(***************************************************************************)
(* The parse_markdown of src/import_skater_requests.py, the earlier copy   *)
(* of the script.  Its lines 1-78 (parse_skater_name, parse_status and the *)
(* head of parse_markdown) and the branches of its loop after the section  *)
(* test are, character for character, those of the copy under scripts/, so *)
(* the operators of the lines are shared; the loop, the section test and   *)
(* the dict of a new entry are translated here from the earlier file.      *)
(***************************************************************************)
\* the dict a skater name line starts, lines 110-119: no 'section' key
NewSkaterOld(line) ==
    LET name == parse_skater_name(line)
    IN  [first_name |-> name[1],
         last_name |-> name[2],
         events |-> <<>>,
         email |-> None,
         gallery_status |-> "pending",
         gross_amount |-> None,
         net_amount |-> None,
         notes |-> <<>>]

\* variant: every header opens the target section
InTargetSectionAnyHeader(section_name, sect) == TRUE
\* in_target_section = (section_name == section), line 96
InTargetSection(section_name, sect) == section_name = sect

\* the body of the for loop of the earlier file on one line
ProcessLineOld(out, cs, in_target_section, sect, raw) ==
    LET line == RStrip(raw)
        same == [skaters |-> out, current_skater |-> cs,
                 in_target_section |-> in_target_section, raised |-> FALSE]
    IN  IF IsHeader(line) THEN
            [same EXCEPT !.in_target_section = InTargetSection(HeaderName(line), sect)]
        ELSE IF ~in_target_section THEN same
        ELSE IF IsSkaterLine(line) THEN
            [same EXCEPT !.skaters = Emit(out, cs),
                         !.current_skater = Some(NewSkaterOld(line))]
        ELSE IF cs /= None /\ IsEventLine(line) THEN
            IF EventNumber(line) = None THEN [same EXCEPT !.raised = TRUE]
            ELSE [same EXCEPT !.current_skater =
                     Some([cs[1] EXCEPT !.events = AppendEvent(@, EventNumber(line)[1])])]
        ELSE IF cs /= None /\ IsEmailLine(line) THEN
            [same EXCEPT !.current_skater = Some([cs[1] EXCEPT !.email = EmailOf(line)])]
        ELSE IF cs /= None /\ IsStatusLine(line) THEN
            [same EXCEPT !.current_skater = Some(WithStatus(cs[1], parse_status(line)))]
        ELSE IF cs /= None /\ IsNoteLine(line) THEN
            [same EXCEPT !.current_skater =
                Some([cs[1] EXCEPT !.notes = Append(@, Strip(AfterFirst(line, KwNote)))])]
        ELSE same

RECURSIVE RunLinesOld(_, _, _)
RunLinesOld(st, lines, sect) ==
    IF lines = <<>> \/ st.raised THEN st
    ELSE RunLinesOld(ProcessLineOld(st.skaters, st.current_skater, st.in_target_section,
                                    sect, Head(lines)),
                     Tail(lines), sect)

\* parse_markdown of the earlier file on a whole file: the returned list, or raised
parse_markdown_old(lines, sect) ==
    LET st == RunLinesOld([skaters |-> <<>>, current_skater |-> None,
                           in_target_section |-> FALSE, raised |-> FALSE], lines, sect)
    IN  IF st.raised THEN [raised |-> TRUE, skaters |-> <<>>]
        ELSE [raised |-> FALSE, skaters |-> Emit(st.skaters, st.current_skater)]

(***************************************************************************)
(* The documents of the model: lines of every shape of the format, and     *)
(* lines that fit none.                                                    *)
(***************************************************************************)
Indent == <<" "," "," ">>
Sp == <<" ">>
SectionRequested == <<"R","e","q","u","e","s","t","e","d">>
SectionUnrequested == <<"U","n","r","e","q","u","e","s","t","e","d">>
NameSmith == <<"S","m","i","t","h">>
NameJohn == <<"J","o","h","n">>
NameLee == <<"L","e","e">>
WordSent == <<"S","e","n","t">>
Amt4500 == <<"4","5",".","0","0">>
Amt3825 == <<"3","8",".","2","5">>

LnHeaderRequested == KwHeader \o Sp \o SectionRequested
LnHeaderUnrequested == KwHeader \o Sp \o SectionUnrequested
LnSmithJohn == NameSmith \o Sp \o NameJohn
LnLee == NameLee
LnVanDykeAnn == <<"V","a","n"," "," ","D","y","k","e"," ","A","n","n">>
LnEvent3 == Indent \o KwEvent \o <<"3">>
LnEvent12 == Indent \o KwEvent \o <<"1","2">>
LnEventTBD == Indent \o KwEvent \o <<"T","B","D">>
LnStatusSent == Indent \o KwStatus \o Sp \o WordSent
LnStatusFull ==
    Indent \o KwStatus \o Sp \o PatFullHead \o Amt4500 \o PatNetMid \o Amt3825 \o PatClose
LnEmail == Indent \o KwEmail \o Sp \o <<"a","@","b">>
LnNote == Indent \o KwNote \o Sp \o <<"r","u","s","h">>
LnOther == Indent \o <<"-"," ","c","a","s","h">>

\* section headers, subject lines, reference lines (one malformed), a status
\* line and a line of no shape
VocabShapes ==
    {LnHeaderRequested, LnHeaderUnrequested, LnSmithJohn, LnEvent3, LnEventTBD,
     LnStatusSent, LnOther}
\* the field lines of an entry
VocabFields ==
    {LnHeaderRequested, LnSmithJohn, LnLee, LnEvent12, LnEmail, LnStatusFull, LnNote}

\* the entry of the format's example, and a name of three words
VocabExample ==
    {LnHeaderRequested, LnSmithJohn, LnVanDykeAnn, LnEvent3, LnEvent12, LnStatusSent}

\* lines that fit two rules at once: a header with a keyword, an un-indented
\* 'Event 3', a reference line with 'Email:', a contact line with 'Status:',
\* a status line with 'Note:'
LnEventPlain == KwEvent \o <<"3">>
LnEventEmail == Indent \o KwEvent \o <<"3">> \o Sp \o KwEmail \o Sp \o <<"a","@","b">>
LnEmailStatus == Indent \o KwEmail \o Sp \o <<"a","@","b">> \o Sp \o KwStatus \o Sp \o WordSent
LnStatusNote == Indent \o KwStatus \o Sp \o WordSent \o Sp \o KwNote \o Sp \o <<"r","u","s","h">>
LnHeaderEmail == KwHeader \o Sp \o KwEmail \o Sp \o <<"a","@","b">>
VocabPriority ==
    {LnSmithJohn, LnEventPlain, LnEventEmail, LnEmailStatus, LnStatusNote, LnHeaderEmail}

\* contact lines: an address, nothing after the keyword, and the keyword in
\* the middle of a line with tabs around the address
LnEmailEmpty == Indent \o KwEmail \o <<" "," ">>
LnEmailSecond == <<"\t","R","e"," ">> \o KwEmail \o <<"\t","c","@","d"," ","\t">>
VocabContact == {LnSmithJohn, LnEvent3, LnEmail, LnEmailEmpty, LnEmailSecond}

\* a name with a tab after the first token and blanks at the end of the
\* line, and the three kinds of status line
LnLeeTabAnn == <<"L","e","e","\t","A","n","n"," ","M","a","r","i","e"," "," ">>
LnStatusShort == Indent \o KwStatus \o Sp \o PatDollar \o <<"2","0",".","0","0">> \o PatNetTail
VocabAmounts == {LnLeeTabAnn, LnEvent3, LnStatusFull, LnStatusSent, LnStatusShort}

Vocabularies ==
    {VocabShapes, VocabFields, VocabExample, VocabPriority, VocabContact, VocabAmounts}
Filters == {SectionRequested, SectionUnrequested, SectionAll}

(***************************************************************************)
(* The extractor as a state machine.                                       *)
(***************************************************************************)
ExtractIdle ==
    /\ vocab = {}
    /\ doc = <<>>
    /\ section = SectionAll
    /\ skaters = <<>>
    /\ current_skater = None
    /\ current_section_name = None
    /\ pc = "idle"

\* parse_markdown(filepath, section) entered: lines 85-87
InitExtract ==
    /\ vocab \in Vocabularies
    /\ doc = <<>>
    /\ section \in Filters
    /\ skaters = <<>>
    /\ current_skater = InitialSkater
    /\ current_section_name = None
    /\ pc = "reading"

\* one iteration of "for line in f"
ReadLine ==
    /\ pc = "reading"
    /\ Len(doc) < MaxDocLen
    /\ \E raw \in vocab :
        LET r == ProcessLine(skaters, current_skater, current_section_name, section, raw)
        IN  /\ doc' = Append(doc, raw)
            /\ skaters' = r.skaters
            /\ current_skater' = r.current_skater
            /\ current_section_name' = r.current_section_name
            /\ pc' = IF r.raised THEN "raised" ELSE "reading"
    /\ UNCHANGED <<vocab, section>>
    /\ UNCHANGED <<svars, rvars, cvars, ivars, mvars>>

\* the end of the file: save the last skater and return
EndOfFile ==
    /\ pc = "reading"
    /\ skaters' = Emit(skaters, current_skater)
    /\ pc' = "done"
    /\ UNCHANGED <<vocab, doc, section, current_skater, current_section_name>>
    /\ UNCHANGED <<svars, rvars, cvars, ivars, mvars>>

(***************************************************************************)
(* analyze_duplicates.                                                     *)
(*                                                                         *)
(* A record identifier, a skater identifier and an event identifier are    *)
(* one-digit numbers standing for the strings str() gives, so that the     *)
(* order of the numbers is the order of the strings.  A field of a record  *)
(* holds FieldNone (Python's None, also what record.get gives for a key    *)
(* that is not there), the string 'NONE', the empty string, or a value.    *)
(* created_at is None (no such key) or a string, written as the sequence   *)
(* of its character codes.                                                 *)
(***************************************************************************)
FieldNone == "<None>"

\* variant: x is not None
PresentNotNull(x) == x /= FieldNone
\* x not in [None, 'NONE', '']
Present(x) == x \notin {FieldNone, "NONE", ""}

\* the data completeness score, lines 77-86
Score(record) ==
      (IF Present(record.purchase_amount) THEN 3 ELSE 0)
    + (IF Present(record.notes) THEN 2 ELSE 0)
    + (IF Present(record.gallery_url) THEN 2 ELSE 0)
    + (IF Present(record.purchase_date) THEN 1 ELSE 0)

\* x[3].get('created_at', '')
CreatedAt(record) == IF record.created_at = None THEN <<>> ELSE record.created_at[1]

\* a < b on str
RECURSIVE StrLess(_, _)
StrLess(a, b) ==
    IF b = <<>> THEN FALSE
    ELSE IF a = <<>> THEN TRUE
    ELSE IF a[1] /= b[1] THEN a[1] < b[1]
    ELSE StrLess(Tail(a), Tail(b))

\* variant: among equal scores the latest created_at first
SortsBeforeNewest(a, b) ==
    \/ Score(a) > Score(b)
    \/ Score(a) = Score(b) /\ StrLess(CreatedAt(b), CreatedAt(a))
\* key(a) < key(b) for key = lambda x: (-x[2], x[3].get('created_at', ''))
SortsBefore(a, b) ==
    \/ Score(a) > Score(b)
    \/ Score(a) = Score(b) /\ StrLess(CreatedAt(a), CreatedAt(b))

\* list.sort: stable, an element stays behind the elements it does not sort before
RECURSIVE InsertSorted(_, _)
InsertSorted(sorted, x) ==
    IF sorted = <<>> THEN <<x>>
    ELSE IF SortsBefore(x, Head(sorted)) THEN <<x>> \o sorted
    ELSE <<Head(sorted)>> \o InsertSorted(Tail(sorted), x)

RECURSIVE SortRecords(_)
SortRecords(records) ==
    IF records = <<>> THEN <<>>
    ELSE InsertSorted(SortRecords(SubSeq(records, 1, Len(records) - 1)),
                      records[Len(records)])

\* key = (skater_id, event_id)
KeyOf(rel) == <<rel.in, rel.out>>

\* grouped[key]: the records of a key, in query order
Grouped(rels, key) == SelectSeq(rels, LAMBDA rel : KeyOf(rel) = key)

\* duplicates = {k: v for k, v in grouped.items() if len(v) > 1}
DuplicateKeys(rels) ==
    {k \in {KeyOf(rels[i]) : i \in 1..Len(rels)} : Len(Grouped(rels, k)) > 1}

\* (a, b) < (c, d) on tuples of str
KeyLess(k1, k2) == k1[1] < k2[1] \/ (k1[1] = k2[1] /\ k1[2] < k2[2])

\* sorted(duplicates.items()): the keys in ascending order
RECURSIVE SortedKeys(_)
SortedKeys(keys) ==
    IF keys = {} THEN <<>>
    ELSE LET first == CHOOSE k \in keys : \A other \in keys : other = k \/ KeyLess(k, other)
         IN  <<first>> \o SortedKeys(keys \ {first})

\* the skater, event and competition tables, read for the labels only
SkaterTable == [i \in {1} |-> [last_name |-> "Smith", first_name |-> "John"]]
EventTable == [i \in {1} |-> [competition |-> 1, event_number |-> "3"]]
CompetitionTable == [i \in {1} |-> [name |-> "2025 Pony Express"]]

\* f"{last_name}, {first_name}", 'Unknown' for what is not there
SkaterName(skater_id) ==
    IF skater_id \in DOMAIN SkaterTable
    THEN <<SkaterTable[skater_id].last_name, SkaterTable[skater_id].first_name>>
    ELSE <<"Unknown", "Unknown">>

\* f"{comp name} #{event_number}"
EventInfo(event_id) ==
    IF event_id \in DOMAIN EventTable
    THEN <<IF EventTable[event_id].competition \in DOMAIN CompetitionTable
           THEN CompetitionTable[EventTable[event_id].competition].name
           ELSE "Unknown Competition",
           EventTable[event_id].event_number>>
    ELSE <<"Unknown Competition", "?">>

\* variant: record_scores[0:] marked for deletion
RecommendDeleteAll(rels, key) ==
    LET record_scores == SortRecords(Grouped(rels, key))
    IN  [key |-> key,
         keep_record |-> Head(record_scores),
         delete_records |-> record_scores]
\* the recommendation for one duplicate group: lines 72-104
Recommend(rels, key) ==
    LET record_scores == SortRecords(Grouped(rels, key))
    IN  [key |-> key,
         keep_record |-> Head(record_scores),
         delete_records |-> Tail(record_scores)]

\* variant: the entries name the record that is kept
PlanEntriesOfKept(rec) ==
    [i \in 1..Len(rec.delete_records) |->
        [id |-> rec.keep_record.id,
         skater |-> SkaterName(rec.key[1]),
         event |-> EventInfo(rec.key[2]),
         reason |-> <<Score(rec.delete_records[i]), Score(rec.keep_record)>>]]
\* the entries one group adds to the plan: lines 108-115
PlanEntries(rec) ==
    [i \in 1..Len(rec.delete_records) |->
        [id |-> rec.delete_records[i].id,
         skater |-> SkaterName(rec.key[1]),
         event |-> EventInfo(rec.key[2]),
         reason |-> <<Score(rec.delete_records[i]), Score(rec.keep_record)>>]]

\* the recommendations, in the order of the sorted keys
Recommendations(rels) ==
    LET keys == SortedKeys(DuplicateKeys(rels))
    IN  [i \in 1..Len(keys) |-> Recommend(rels, keys[i])]

RECURSIVE Flatten(_)
Flatten(seqs) == IF seqs = <<>> THEN <<>> ELSE Head(seqs) \o Flatten(Tail(seqs))

\* deletion_plan when the loop over the duplicate groups ends
BuildPlan(rels) ==
    LET recs == Recommendations(rels)
    IN  Flatten([i \in 1..Len(recs) |-> PlanEntries(recs[i])])

\* variant: the file opened with mode 'a'
WritePlanAppend(old, plan) == IF old = None THEN Some(plan) ELSE Some(old[1] \o plan)
\* open('deletion_plan.json', 'w') and json.dump: the file's new content
WritePlan(old, plan) == Some(plan)

(***************************************************************************)
(* The relation records of the model.                                      *)
(***************************************************************************)
SkaterIds == {1, 2}
EventIds == {1}
\* field values: nothing present (score 0) and a purchase amount (score 3),
\* the absent values written in each of the three ways
FieldProfiles ==
    {[purchase_amount |-> FieldNone, notes |-> "NONE", gallery_url |-> "", purchase_date |-> FieldNone],
     [purchase_amount |-> "38.25", notes |-> FieldNone, gallery_url |-> "NONE", purchase_date |-> ""],
     [purchase_amount |-> "", notes |-> "rush", gallery_url |-> FieldNone, purchase_date |-> "2025-10-30"]}
\* no created_at, '1', '2'
Timestamps == {None, Some(<<1>>), Some(<<2>>)}

NewRelation(id, skater_id, event_id, profile, created) ==
    [id |-> id, in |-> skater_id, out |-> event_id,
     purchase_amount |-> profile.purchase_amount,
     notes |-> profile.notes,
     gallery_url |-> profile.gallery_url,
     purchase_date |-> profile.purchase_date,
     created_at |-> created]

(***************************************************************************)
(* The resolver and the deletion step as a state machine.                  *)
(***************************************************************************)
ResolverIdle ==
    /\ relations = <<>>
    /\ next_id = 1
    /\ plan_file = None
    /\ deletion_plan = None
    /\ report = <<>>
    /\ analyzed = None
    /\ rerun = FALSE
    /\ resolver_raised = FALSE
    /\ cleanup_log = None

\* The locals of a run (deletion_plan, report, the collection it read, the
\* deletion step's counters) are there when the run ends and gone when the
\* next operation starts.
NoRunLocals ==
    /\ deletion_plan' = None
    /\ report' = <<>>
    /\ analyzed' = None
    /\ rerun' = FALSE
    /\ resolver_raised' = FALSE
    /\ cleanup_log' = None

\* a RELATE ... ->competed_in-> ... of an import: a new record, whether or
\* not the pair already has one
StoreRelate ==
    /\ next_id <= MaxRecords
    /\ \E s \in SkaterIds, e \in EventIds, profile \in FieldProfiles, created \in Timestamps :
        relations' = Append(relations, NewRelation(next_id, s, e, profile, created))
    /\ next_id' = next_id + 1
    /\ NoRunLocals
    /\ UNCHANGED plan_file
    /\ UNCHANGED <<xvars, svars, cvars, ivars, mvars>>

\* db.query(f"DELETE {record_id}") for the identifiers of ids
DeleteRecords(rels, ids) == SelectSeq(rels, LAMBDA rel : rel.id \notin ids)

\* variant: the planned deletions issued by the resolver itself
StoreAfterAnalysisDeleting(rels, plan) ==
    DeleteRecords(rels, {plan[i].id : i \in 1..Len(plan)})
\* the competed_in table after the statements of a run: the run issues the
\* SELECTs of lines 20-27 and no other statement
StoreAfterAnalysis(rels, plan) == rels

\* A record of the query result may lack a key: its 'id', 'in' or 'out' is
\* then written 0, which no identifier is.
\* rel['in'] or rel['out'] raises KeyError for some record of the collection
GroupingRaises(rels) == \E i \in 1..Len(rels) : rels[i].in = 0 \/ rels[i].out = 0

\* record['id'] raises KeyError for some record of a duplicate group
ScoringRaises(rels) ==
    \E key \in DuplicateKeys(rels) :
        \E i \in 1..Len(rels) : KeyOf(rels[i]) = key /\ rels[i].id = 0

\* one run of analyze_duplicates
AnalyzeDuplicates ==
    /\ analyzed' = Some(relations)
    /\ rerun' = (analyzed /= None)
    /\ resolver_raised' = (GroupingRaises(relations) \/ ScoringRaises(relations))
    /\ IF GroupingRaises(relations) \/ ScoringRaises(relations)
       THEN \* KeyError at line 32, 33 or 74: nothing has been written
            /\ deletion_plan' = None
            /\ report' = <<>>
            /\ UNCHANGED plan_file
       ELSE IF DuplicateKeys(relations) = {}
       THEN \* "No duplicates found": return before the plan is built
            /\ deletion_plan' = None
            /\ report' = <<>>
            /\ UNCHANGED plan_file
       ELSE /\ deletion_plan' = Some(BuildPlan(relations))
            /\ report' = Recommendations(relations)
            /\ plan_file' = WritePlan(plan_file, BuildPlan(relations))
    /\ cleanup_log' = None
    /\ relations' = StoreAfterAnalysis(relations,
                                       IF \/ GroupingRaises(relations)
                                          \/ ScoringRaises(relations)
                                          \/ DuplicateKeys(relations) = {}
                                       THEN <<>>
                                       ELSE BuildPlan(relations))
    /\ UNCHANGED next_id
    /\ UNCHANGED <<xvars, svars, cvars, ivars, mvars>>

\* variant: the loop left at the first DELETE that raises
DeletesIssuedUntilFailure(plan, fails) ==
    IF fails = {} THEN [i \in 1..Len(plan) |-> i]
    ELSE [i \in 1..Min(fails) |-> i]
\* the positions of the plan for which the loop of lines 31-40 sends a
\* DELETE, in the order it sends them; fails: the positions whose DELETE raises
DeletesIssued(plan, fails) == [i \in 1..Len(plan) |-> i]

\* one run of cleanup_duplicates; each DELETE may raise
CleanupDuplicates ==
    /\ IF plan_file = None
       THEN \* open() raises FileNotFoundError
            /\ cleanup_log' = Some([raised |-> TRUE, plan |-> <<>>, issued |-> <<>>,
                                    deleted_count |-> 0, failed |-> <<>>,
                                    all_succeeded |-> FALSE])
            /\ UNCHANGED relations
       ELSE LET plan == plan_file[1]
            IN  \E fails \in SUBSET (1..Len(plan)) :
                    LET issued == DeletesIssued(plan, fails)
                        ok == SelectSeq(issued, LAMBDA i : i \notin fails)
                        failed == SelectSeq(issued, LAMBDA i : i \in fails)
                    IN  /\ relations' =
                             DeleteRecords(relations, {plan[ok[n]].id : n \in 1..Len(ok)})
                        /\ cleanup_log' =
                             Some([raised |-> FALSE,
                                   plan |-> plan,
                                   issued |-> [n \in 1..Len(issued) |-> plan[issued[n]].id],
                                   deleted_count |-> Len(ok),
                                   failed |-> [n \in 1..Len(failed) |-> plan[failed[n]].id],
                                   all_succeeded |-> Len(ok) = Len(plan)])
    /\ deletion_plan' = None
    /\ report' = <<>>
    /\ analyzed' = None
    /\ rerun' = FALSE
    /\ resolver_raised' = FALSE
    /\ UNCHANGED <<next_id, plan_file>>
    /\ UNCHANGED <<xvars, svars, cvars, ivars, mvars>>

(***************************************************************************)
(* parse_status called on one status line.                                 *)
(***************************************************************************)
\* amounts as they are written, with the value each denotes (m / 10^e)
Amounts ==
    {[text |-> <<"4","5",".","0","0">>, value |-> [m |-> 45, e |-> 0]],
     [text |-> <<"3","8",".","2","5">>, value |-> [m |-> 3825, e |-> 2]],
     [text |-> <<"2","0",".","0","0">>, value |-> [m |-> 20, e |-> 0]],
     [text |-> <<"7",".","5">>, value |-> [m |-> 75, e |-> 1]],
     [text |-> <<"1","2","0">>, value |-> [m |-> 120, e |-> 0]]}

\* 'Purchased - $G (Net: $N)', 'Purchased (Net: $N)', '$N net'
FullText(g, n) == PatFullHead \o g \o PatNetMid \o n \o PatClose
NetText(n) == PatNetHead \o n \o PatClose
ShortText(n) == PatDollar \o n \o PatNetTail

\* texts that no pattern matches: a word, nothing, and texts one character
\* away from a match (no digit after '$', the closing parenthesis missing,
\* 'Net' for 'net', no space before 'net', the amount starting with '.')
UnrecognizedTexts ==
    {WordSent,
     <<"P","a","i","d">>,
     <<>>,
     <<"P","u","r","c","h","a","s","e","d">>,
     PatFullHead \o Amt4500,
     PatFullHead \o PatNetMid \o Amt3825 \o PatClose,
     PatNetHead \o Amt3825,
     PatNetHead \o <<".","5">> \o PatClose,
     PatDollar \o PatNetTail,
     PatDollar \o Amt3825 \o <<" ","N","e","t">>,
     PatDollar \o Amt3825 \o <<"n","e","t">>,
     Amt3825 \o PatNetTail}

\* texts that more than one pattern matches, with what parse_status is to
\* return for each
Amt2000 == <<"2","0",".","0","0">>
Amt75 == <<"7",".","5">>
OverlapExamples ==
    {[text |-> FullText(Amt4500, Amt3825) \o Sp \o ShortText(Amt2000),
      result |-> <<"purchased", Some([m |-> 45, e |-> 0]), Some([m |-> 3825, e |-> 2])>>],
     [text |-> ShortText(Amt2000) \o Sp \o FullText(Amt4500, Amt3825),
      result |-> <<"purchased", Some([m |-> 45, e |-> 0]), Some([m |-> 3825, e |-> 2])>>],
     [text |-> NetText(Amt75) \o Sp \o FullText(Amt4500, Amt3825),
      result |-> <<"purchased", Some([m |-> 45, e |-> 0]), Some([m |-> 3825, e |-> 2])>>],
     [text |-> ShortText(Amt2000) \o Sp \o NetText(Amt75),
      result |-> <<"purchased", None, Some([m |-> 75, e |-> 1])>>],
     [text |-> WordSent \o Sp \o ShortText(Amt2000),
      result |-> <<"purchased", None, Some([m |-> 20, e |-> 0])>>]}

StatusTexts ==
    {FullText(g.text, n.text) : g \in Amounts, n \in Amounts}
      \cup {NetText(n.text) : n \in Amounts}
      \cup {ShortText(n.text) : n \in Amounts}
      \cup UnrecognizedTexts
      \cup {ex.text : ex \in OverlapExamples}

\* the line as parse_markdown passes it, and the bare line
StatusPrefixes == {Indent \o KwStatus \o Sp, KwStatus \o Sp}
StatusLines == {p \o t : p \in StatusPrefixes, t \in StatusTexts}

StatusIdle ==
    /\ status_line = <<>>
    /\ status_result = None

InitStatus ==
    /\ status_line \in StatusLines
    /\ status_result = None

\* parse_status(status_line) returns
ParseStatus ==
    /\ status_result = None
    /\ status_result' = Some(parse_status(status_line))
    /\ UNCHANGED status_line
    /\ UNCHANGED <<xvars, rvars, cvars, ivars, mvars>>

(***************************************************************************)
(* The completeness score of one relation record, lines 77-86.             *)
(***************************************************************************)
\* what a field holds: None, 'NONE', '', and strings that are none of them
FieldValues == {FieldNone, "NONE", "", "none", " ", "45.00"}
\* the fields the score does not read
OtherStatuses == {"sent", "purchased"}

ScoreRecords ==
    {[id |-> 1, in |-> 1, out |-> 1,
      purchase_amount |-> pa, notes |-> nt, gallery_url |-> url, purchase_date |-> pd,
      gallery_status |-> gs, created_at |-> created] :
        pa \in FieldValues, nt \in FieldValues, url \in FieldValues, pd \in FieldValues,
        gs \in OtherStatuses, created \in {None, Some(<<1>>)}}

ScoreIdle ==
    /\ score_record = [id |-> 0]
    /\ score_result = None

InitScore ==
    /\ score_record \in ScoreRecords
    /\ score_result = None

\* the score of the record is computed
ScoreRecord ==
    /\ score_record \in ScoreRecords
    /\ score_result = None
    /\ score_result' = Some(Score(score_record))
    /\ UNCHANGED score_record
    /\ UNCHANGED <<xvars, svars, rvars, ivars, mvars>>

(***************************************************************************)
(* import_to_surrealdb.                                                    *)
(*                                                                         *)
(* A table is the sequence of its rows in insertion order.  A statement    *)
(* that fails is a db.query that raises.  The time stamps of the rows are  *)
(* left out.  NONE in a relation is written None.                          *)
(***************************************************************************)
UpperSeq == <<"A","B","C","D","E","F","G","H","I","J","K","L","M",
              "N","O","P","Q","R","S","T","U","V","W","X","Y","Z">>
LowerSeq == <<"a","b","c","d","e","f","g","h","i","j","k","l","m",
              "n","o","p","q","r","s","t","u","v","w","x","y","z">>
\* s.lower()
Lower(s) ==
    [i \in 1..Len(s) |->
        IF s[i] \in UpperCase THEN LowerSeq[CHOOSE k \in 1..26 : UpperSeq[k] = s[i]]
        ELSE s[i]]
\* s.replace(old, new) for one-character old and new
ReplaceChar(s, old, new) == [i \in 1..Len(s) |-> IF s[i] = old THEN new ELSE s[i]]

\* str(n) for an int n >= 0
RECURSIVE StrOfNat(_)
StrOfNat(n) ==
    IF n < 10 THEN <<DigitChars[n + 1]>>
    ELSE StrOfNat(n \div 10) \o <<DigitChars[(n % 10) + 1]>>

\* comp_id, line 163
CompId(competition_name) == ReplaceChar(Lower(competition_name), " ", "_")
\* skater_id, line 176
SkaterId(skater) ==
    ReplaceChar(ReplaceChar(Lower(skater.last_name \o <<"_">> \o skater.first_name),
                            "-", "_"), " ", "_")
\* event_id, line 198
EventId(comp_id, event_num) == comp_id \o <<"_">> \o StrOfNat(event_num)

\* INSERT ... ON DUPLICATE KEY UPDATE: the statements of lines 164-168,
\* 181-192 and 203-213 update, in the row that has the id, every field the
\* model keeps, and add the row when no row has the id
Upsert(table, row) ==
    IF \E i \in 1..Len(table) : table[i].id = row.id
    THEN [i \in 1..Len(table) |-> IF table[i].id = row.id THEN row ELSE table[i]]
    ELSE Append(table, row)

\* variant: a relation is created only when the pair has none yet
RelateUnlessPresent(table, row) ==
    IF \E n \in 1..Len(table) : table[n].in = row.in /\ table[n].out = row.out
    THEN table ELSE Append(table, row)
\* RELATE ... CONTENT, lines 233-242: a new relation record each time
Relate(table, row) == Append(table, row)

\* the relation of one skater and one event, lines 224-242
RelationRow(skater, skater_id, event_id) ==
    [in |-> skater_id,
     out |-> event_id,
     request_status |-> IF skater.section = Some(SectionUnrequested)
                        THEN "unrequested" ELSE "requested",
     gallery_status |-> skater.gallery_status,
     purchase_amount |-> IF skater.net_amount = None \/ skater.net_amount[1].m = 0
                         THEN None ELSE skater.net_amount,
     purchase_date |-> IF skater.gallery_status = "purchased" THEN "time::now()" ELSE "NONE"]

\* the body of the loop over skater['events'], lines 197-247; outcome says
\* which statement of it raises, if any
ImportEvent(st, skater, skater_id, comp_id, event_num, outcome) ==
    LET event_id == EventId(comp_id, event_num)
    IN  IF outcome = "event_failed" THEN [st EXCEPT !.event_errors = @ + 1]
        ELSE LET st1 == [st EXCEPT !.event =
                            Upsert(@, [id |-> event_id, competition |-> comp_id,
                                       event_number |-> event_num])]
             IN  IF outcome = "relation_failed"
                 THEN [st1 EXCEPT !.relation_errors = @ + 1]
                 ELSE [st1 EXCEPT !.competed_in =
                                      Relate(@, RelationRow(skater, skater_id, event_id)),
                                  !.total_relations = @ + 1]

RECURSIVE ImportEvents(_, _, _, _, _, _)
ImportEvents(st, skater, comp_id, i, j, outcomes) ==
    IF j > Len(skater.events) THEN st
    ELSE ImportEvents(ImportEvent(st, skater, SkaterId(skater), comp_id,
                                  skater.events[j], outcomes[<<i, j>>]),
                      skater, comp_id, i, j + 1, outcomes)

\* the loop over the skaters, lines 172-247; skater_fails: the positions
\* whose INSERT INTO skater raises
RECURSIVE ImportSkaters(_, _, _, _, _, _)
ImportSkaters(st, list, comp_id, i, skater_fails, outcomes) ==
    IF i > Len(list) THEN st
    ELSE LET skater == list[i]
             st1 == IF i \in skater_fails THEN [st EXCEPT !.skater_errors = @ + 1]
                    ELSE [st EXCEPT !.skater =
                             Upsert(@, [id |-> SkaterId(skater),
                                        first_name |-> skater.first_name,
                                        last_name |-> skater.last_name])]
         IN  ImportSkaters(ImportEvents(st1, skater, comp_id, i, 1, outcomes),
                           list, comp_id, i + 1, skater_fails, outcomes)

\* the (entry, reference) occurrences of a list
Occurrences(list) ==
    UNION {{<<i, j>> : j \in 1..Len(list[i].events)} : i \in 1..Len(list)}

CompetitionName == <<"P","o","n","y"," ","E","x","p","r","e","s","s">>

\* entries as parse_markdown returns them
EntLeeAnn ==
    [first_name |-> <<"A","n","n">>, last_name |-> NameLee, events |-> <<3, 12>>,
     email |-> None, gallery_status |-> "purchased", gross_amount |-> None,
     net_amount |-> Some([m |-> 3825, e |-> 2]), notes |-> <<>>,
     section |-> Some(SectionRequested)]
EntVanDyke ==
    [first_name |-> <<"A","n","n">>, last_name |-> <<"V","a","n","-","D","y","k","e">>,
     events |-> <<3>>,
     email |-> None, gallery_status |-> "sent", gross_amount |-> None,
     net_amount |-> None, notes |-> <<>>,
     section |-> Some(SectionUnrequested)]
\* 'van dyke Ann': the same skater id as 'Van-Dyke Ann'
EntVanDykeSpaced ==
    [first_name |-> <<"d","y","k","e"," ","A","n","n">>, last_name |-> <<"v","a","n">>,
     events |-> <<3>>,
     email |-> None, gallery_status |-> "purchased", gross_amount |-> None,
     net_amount |-> Some([m |-> 0, e |-> 0]), notes |-> <<>>,
     section |-> Some(SectionRequested)]
\* an entry that names event 3 twice, read before any header
EntTwice ==
    [first_name |-> NameJohn, last_name |-> NameSmith, events |-> <<3, 3>>,
     email |-> None, gallery_status |-> "pending", gross_amount |-> None,
     net_amount |-> None, notes |-> <<>>,
     section |-> None]
ImportLists == {<<EntLeeAnn>>, <<EntTwice>>, <<EntVanDyke, EntVanDykeSpaced>>}

ImportIdle ==
    /\ import_list = <<>>
    /\ db_competition = <<>>
    /\ db_skater = <<>>
    /\ db_event = <<>>
    /\ competed_in = <<>>
    /\ import_runs = 0
    /\ import_clean = TRUE
    /\ import_log = None

\* an empty database and an entry list to import
InitImport ==
    /\ import_list \in ImportLists
    /\ db_competition = <<>>
    /\ db_skater = <<>>
    /\ db_event = <<>>
    /\ competed_in = <<>>
    /\ import_runs = 0
    /\ import_clean = TRUE
    /\ import_log = None

\* one run of import_to_surrealdb(import_list, CompetitionName)
ImportToSurrealDB ==
    /\ import_list /= <<>>
    /\ import_runs < MaxImports
    /\ import_runs' = import_runs + 1
    /\ \/ \* the connection or the INSERT INTO competition raises: lines 158-168
          \* are in no try block
          /\ import_log' = Some([raised |-> TRUE, skater_errors |-> 0, event_errors |-> 0,
                                 relation_errors |-> 0, total_relations |-> 0])
          /\ import_clean' = FALSE
          /\ UNCHANGED <<db_competition, db_skater, db_event, competed_in>>
       \/ \E skater_fails \in SUBSET (1..Len(import_list)),
             outcomes \in [Occurrences(import_list) ->
                              {"ok", "event_failed", "relation_failed"}] :
            LET comp_id == CompId(CompetitionName)
                st == ImportSkaters([skater |-> db_skater, event |-> db_event,
                                     competed_in |-> competed_in,
                                     skater_errors |-> 0, event_errors |-> 0,
                                     relation_errors |-> 0, total_relations |-> 0],
                                    import_list, comp_id, 1, skater_fails, outcomes)
            IN  /\ db_competition' =
                     Upsert(db_competition,
                            [id |-> comp_id, name |-> CompetitionName, venue |-> <<>>])
                /\ db_skater' = st.skater
                /\ db_event' = st.event
                /\ competed_in' = st.competed_in
                /\ import_log' = Some([raised |-> FALSE,
                                       skater_errors |-> st.skater_errors,
                                       event_errors |-> st.event_errors,
                                       relation_errors |-> st.relation_errors,
                                       total_relations |-> st.total_relations])
                /\ import_clean' = (/\ import_clean
                                    /\ skater_fails = {}
                                    /\ \A o \in Occurrences(import_list) : outcomes[o] = "ok")
    /\ UNCHANGED import_list
    /\ UNCHANGED <<xvars, svars, rvars, cvars, mvars>>

(***************************************************************************)
(* MCPRunner of tests/mcp_test_runner.py and the server at the other end   *)
(* of its pipes.                                                           *)
(*                                                                         *)
(* A line of the server's output is a JSON object with or without an 'id', *)
(* or text that is no JSON.  answers is not in the line: it says which     *)
(* call of send_request the server wrote the line in response to (0: none, *)
(* the line is a notification or a request of the server's own).           *)
(***************************************************************************)
IntId(n) == [t |-> "int", v |-> n]
StrId(n) == [t |-> "str", v |-> n]
Notification == [kind |-> "notification", id |-> None, answers |-> 0]
Garbage == [kind |-> "garbage", id |-> None, answers |-> 0]
ServerRequest(n) == [kind |-> "request", id |-> Some(IntId(n)), answers |-> 0]
Response(k, n) == [kind |-> "response", id |-> Some(IntId(n)), answers |-> k]
\* a response that gives the id back as a string
ResponseStrId(k, n) == [kind |-> "response", id |-> Some(StrId(n)), answers |-> k]

\* variant: only a line without an id is skipped
UnrelatedOnlyWithoutId(line, req_id) == line.id = None
\* "id" not in response or response["id"] != req_id, line 65
Unrelated(line, req_id) == line.id = None \/ line.id[1] /= IntId(req_id)

\* self.request_id += 1, line 38
NextRequestId(n) == n + 1

\* no call of send_request is in its loop
NoCallWaiting == IF calls = <<>> THEN TRUE ELSE calls[Len(calls)].outcome /= "waiting"

RunnerIdle ==
    /\ request_id = 0
    /\ calls = <<>>
    /\ pipe = <<>>
    /\ server_closed = TRUE
    /\ lines_written = 0

\* MCPRunner.__init__, lines 14-24: the server started, request_id = 0
InitRunner ==
    /\ request_id = 0
    /\ calls = <<>>
    /\ pipe = <<>>
    /\ server_closed = FALSE
    /\ lines_written = 0

\* send_request entered, lines 37-53: the id chosen and the request written;
\* writing to a server that is gone may raise BrokenPipeError
SendRequest ==
    /\ NoCallWaiting
    /\ Len(calls) < MaxRequests
    /\ \E req_id \in {None} \cup {Some(n) : n \in 1..MaxRequests},
          broken \in {b \in BOOLEAN : b => server_closed} :
        LET id == IF req_id = None THEN NextRequestId(request_id) ELSE req_id[1]
        IN  /\ request_id' = IF req_id = None THEN NextRequestId(request_id) ELSE request_id
            /\ calls' = Append(calls, [id |-> id, auto |-> req_id = None, answered |-> FALSE,
                                       discarded |-> <<>>,
                                       outcome |-> IF broken THEN "broken_pipe" ELSE "waiting",
                                       response |-> None])
    /\ UNCHANGED <<pipe, server_closed, lines_written>>
    /\ UNCHANGED <<xvars, svars, rvars, cvars, ivars>>

\* one iteration of the loop of lines 55-69
ReadResponseLine ==
    /\ ~NoCallWaiting
    /\ LET k == Len(calls)
           req_id == calls[k].id
       IN  IF pipe = <<>>
           THEN \* readline() returns '' at the end of the output, and blocks before it
                /\ server_closed
                /\ calls' = [calls EXCEPT ![k].outcome = "eof"]
                /\ UNCHANGED pipe
           ELSE LET line == Head(pipe)
                IN  /\ pipe' = Tail(pipe)
                    /\ calls' =
                         IF line.kind = "garbage"
                             THEN [calls EXCEPT ![k].outcome = "json_error"]
                         ELSE IF Unrelated(line, req_id)
                             THEN [calls EXCEPT ![k].discarded = Append(@, line)]
                         ELSE [calls EXCEPT ![k].outcome = "returned",
                                            ![k].response = Some(line)]
    /\ UNCHANGED <<request_id, server_closed, lines_written>>
    /\ UNCHANGED <<xvars, svars, rvars, cvars, ivars>>

\* the server writes a line: a notification, a request of its own, text
\* that is no JSON, or the response to a request it has received
ServerWrite ==
    /\ ~server_closed
    /\ lines_written < MaxLines
    /\ lines_written' = lines_written + 1
    /\ \/ /\ \E line \in {Notification, Garbage} \cup {ServerRequest(n) : n \in 1..MaxRequests} :
                pipe' = Append(pipe, line)
          /\ UNCHANGED calls
       \/ \E k \in 1..Len(calls) :
            /\ ~calls[k].answered
            /\ calls[k].outcome /= "broken_pipe"
            /\ \E line \in {Response(k, calls[k].id), ResponseStrId(k, calls[k].id)} :
                 pipe' = Append(pipe, line)
            /\ calls' = [calls EXCEPT ![k].answered = TRUE]
    /\ UNCHANGED <<request_id, server_closed>>
    /\ UNCHANGED <<xvars, svars, rvars, cvars, ivars>>

\* the server ends its output
ServerClose ==
    /\ ~server_closed
    /\ server_closed' = TRUE
    /\ UNCHANGED <<request_id, calls, pipe, lines_written>>
    /\ UNCHANGED <<xvars, svars, rvars, cvars, ivars>>

(***************************************************************************)
(* Specifications.                                                         *)
(***************************************************************************)
\* parse_markdown on every document of at most MaxDocLen lines
InitX == InitExtract /\ StatusIdle /\ ResolverIdle /\ ScoreIdle /\ ImportIdle /\ RunnerIdle
SpecExtract == InitX /\ [][ReadLine \/ EndOfFile]_vars

\* parse_status on every status line
InitS == ExtractIdle /\ InitStatus /\ ResolverIdle /\ ScoreIdle /\ ImportIdle /\ RunnerIdle
SpecStatus == InitS /\ [][ParseStatus]_vars

\* imports, resolver runs and deletion steps in any order, on a store that
\* has held at most MaxRecords relation records
InitR == ExtractIdle /\ StatusIdle /\ ResolverIdle /\ ScoreIdle /\ ImportIdle /\ RunnerIdle
SpecResolve == InitR /\ [][StoreRelate \/ AnalyzeDuplicates \/ CleanupDuplicates]_vars

\* the collections a query may return when records can lack a key
PartialRecords ==
    {[id |-> id, in |-> s, out |-> e,
      purchase_amount |-> FieldNone, notes |-> FieldNone, gallery_url |-> FieldNone,
      purchase_date |-> FieldNone, created_at |-> None] :
        id \in {0, 1, 2, 3}, s \in {0, 1, 2}, e \in {0, 1}}

PartialCollections ==
    {rels \in UNION {[1..n -> PartialRecords] : n \in 0..MaxRecords} :
        \A i \in 1..Len(rels) : rels[i].id \in {0, i}}

InitPartial ==
    /\ relations \in PartialCollections
    /\ next_id = Len(relations) + 1
    /\ plan_file = None
    /\ deletion_plan = None
    /\ report = <<>>
    /\ analyzed = None
    /\ rerun = FALSE
    /\ resolver_raised = FALSE
    /\ cleanup_log = None

\* resolver runs and deletion steps on a collection whose records may lack
\* their identifier, their subject or their target
InitP == ExtractIdle /\ StatusIdle /\ InitPartial /\ ScoreIdle /\ ImportIdle /\ RunnerIdle
SpecPartial == InitP /\ [][AnalyzeDuplicates \/ CleanupDuplicates]_vars

\* the score of every relation record
InitC == ExtractIdle /\ StatusIdle /\ ResolverIdle /\ InitScore /\ ImportIdle /\ RunnerIdle
SpecScore == InitC /\ [][ScoreRecord]_vars

\* import_to_surrealdb run up to MaxImports times on one entry list
InitI == ExtractIdle /\ StatusIdle /\ ResolverIdle /\ ScoreIdle /\ InitImport /\ RunnerIdle
SpecImport == InitI /\ [][ImportToSurrealDB]_vars

\* an MCPRunner sending up to MaxRequests requests to a server that writes
\* up to MaxLines lines
InitM == ExtractIdle /\ StatusIdle /\ ResolverIdle /\ ScoreIdle /\ ImportIdle /\ InitRunner
SpecRunner ==
    InitM /\ [][SendRequest \/ ReadResponseLine \/ ServerWrite \/ ServerClose]_vars

(***************************************************************************)
(* Properties of the record extractor (SpecExtract).                       *)
(***************************************************************************)
\* line i of lines is a section header
HeaderAt(lines, i) ==
    Len(lines[i]) >= 2 /\ lines[i][1] = "#" /\ lines[i][2] = "#"

\* the current section name when line i of lines is read: the name of the
\* last header before it
SectionAt(lines, i) ==
    LET hs == {j \in 1..(i - 1) : HeaderAt(lines, j)}
    IN  IF hs = {} THEN None
        ELSE Some(HeaderName(RStrip(lines[CHOOSE j \in hs : \A k \in hs : k <= j])))

\* the lines of a document that are headers or are read in a section the
\* filter sect lets through
RECURSIVE DropSkipped(_, _, _)
DropSkipped(lines, sect, name) ==
    IF lines = <<>> THEN <<>>
    ELSE LET line == Head(lines)
             header == Len(line) >= 2 /\ line[1] = "#" /\ line[2] = "#"
         IN  IF header
                 THEN <<line>> \o DropSkipped(Tail(lines), sect, Some(HeaderName(RStrip(line))))
             ELSE IF sect /= SectionAll /\ name /= Some(sect)
                 THEN DropSkipped(Tail(lines), sect, name)
             ELSE <<line>> \o DropSkipped(Tail(lines), sect, name)

\* C1: every entry of the output list holds at least one reference number, at
\* every point of the scan and when parse_markdown returns; an entry that has
\* none when the next subject line or the end of the file is reached is not
\* in the list.
C1_EveryEntryHasReference ==
    \A i \in 1..Len(skaters) : Len(skaters[i].events) >= 1

\* C1 witness: two subject lines, the first without a reference line: the
\* first entry was dropped and the second returned
C1_Witness ==
    /\ pc = "done"
    /\ section = SectionAll
    /\ doc = <<LnLee, LnSmithJohn, LnEvent12>>
    /\ Len(skaters) = 1
    /\ skaters[1].last_name = NameSmith

\* C6: no line of a document makes parse_markdown raise
C6_NoLineIsFatal == pc /= "raised"

\* C7: with a filter other than 'All', a line that is not a header and is
\* read while the current section name differs from the filter changes
\* neither the output list nor the current entry nor the section name, and
\* the returned list is the one of the document without these lines; with
\* the filter 'All', a subject line starts an entry and a reference line is
\* appended to the current entry whatever the current section name is.
C7_SkippedLinesHaveNoEffect ==
    [][/\ (pc = "reading" /\ Len(doc') = Len(doc) + 1) =>
            LET raw == doc'[Len(doc')]
                line == RStrip(raw)
                header == Len(line) >= 2 /\ line[1] = "#" /\ line[2] = "#"
                subject == line /= <<>> /\ line[1] \in UpperCase
            IN  /\ (section /= SectionAll /\ ~header /\ current_section_name /= Some(section))
                      => /\ UNCHANGED <<skaters, current_skater, current_section_name>>
                         /\ pc' = "reading"
                /\ (section = SectionAll /\ subject)
                      => /\ current_skater' /= None
                         /\ current_skater'[1].events = <<>>
                         /\ current_skater'[1].section = current_section_name
                /\ (section = SectionAll /\ current_skater /= None /\ raw = LnEvent3)
                      => current_skater'[1].events = Append(current_skater[1].events, 3)
       /\ (pc' = "done" /\ pc = "reading") =>
            LET kept == parse_markdown(DropSkipped(doc, section, None), section)
            IN  ~kept.raised /\ kept.skaters = skaters'
      ]_vars

\* C7 witness: the reference line of an entry is read in another section than
\* the filter's, so the entry has no reference at the end and is dropped
C7_Witness ==
    /\ pc = "done"
    /\ section = SectionRequested
    /\ doc = <<LnHeaderRequested, LnSmithJohn, LnHeaderUnrequested, LnEvent3>>
    /\ skaters = <<>>

\* no line of the document is read in a section whose name is the filter
NoLineInSection(lines, sect) ==
    \A i \in 1..Len(lines) : HeaderAt(lines, i) \/ SectionAt(lines, i) /= Some(sect)

\* C8 as stated: a document without a line in a section named as the filter
\* gives the empty list, for every filter
C8_NoMatchingLineGivesEmpty ==
    (pc = "done" /\ NoLineInSection(doc, section)) => skaters = <<>>

\* C8 amended: the same for every filter other than the wildcard 'All'
C8_NoMatchingLineGivesEmpty_Filtered ==
    (pc = "done" /\ section /= SectionAll /\ NoLineInSection(doc, section))
        => skaters = <<>>

\* C8 witness: a complete entry in the section Unrequested, filter Requested
C8_Witness ==
    /\ pc = "done"
    /\ section = SectionRequested
    /\ doc = <<LnHeaderUnrequested, LnSmithJohn, LnEvent3>>
    /\ NoLineInSection(doc, section)
    /\ skaters = <<>>

\* subject lines 'L N' with L and N as they are written
SubjectExamples ==
    {[line |-> LnSmithJohn, last |-> NameSmith, first |-> NameJohn],
     [line |-> LnVanDykeAnn, last |-> <<"V","a","n">>,
      first |-> <<"D","y","k","e"," ","A","n","n">>]}
\* reference lines 'Event k' with k
EventExamples == {[line |-> LnEvent3, k |-> 3], [line |-> LnEvent12, k |-> 12]}

\* C9: '## F', 'L N', '   Event k', '   Status: Sent' under the filter F give
\* one entry: last name L, first name N, references [k], status 'sent', no
\* amounts
C9_ExampleDocument ==
    \A f \in Filters, subj \in SubjectExamples, ev \in EventExamples :
        (/\ pc = "done"
         /\ section = f
         /\ doc = <<KwHeader \o Sp \o f, subj.line, ev.line, LnStatusSent>>)
        => /\ Len(skaters) = 1
           /\ skaters[1].last_name = subj.last
           /\ skaters[1].first_name = subj.first
           /\ skaters[1].events = <<ev.k>>
           /\ skaters[1].gallery_status = "sent"
           /\ skaters[1].gross_amount = None
           /\ skaters[1].net_amount = None

\* C9 witness: the example of the format
C9_Witness ==
    /\ pc = "done"
    /\ section = SectionRequested
    /\ doc = <<LnHeaderRequested, LnSmithJohn, LnEvent3, LnStatusSent>>
    /\ Len(skaters) = 1
    /\ skaters[1].first_name = NameJohn

\* line i of lines is no header and is read in a section the filter lets through
ReadAt(lines, sect, i) ==
    /\ ~HeaderAt(lines, i)
    /\ (sect = SectionAll \/ SectionAt(lines, i) = Some(sect))

\* line i is a subject line: read, un-indented, first character upper-case
SubjectAt(lines, sect, i) ==
    /\ RStrip(lines[i]) /= <<>>
    /\ lines[i][1] \in UpperCase
    /\ ReadAt(lines, sect, i)

\* the positions of the subject lines
SubjectsIn(lines, sect) == {i \in 1..Len(lines) : SubjectAt(lines, sect, i)}

\* the position of the first subject line after line i, Len(lines) + 1 when
\* there is none
NextAmong(subjects, n, i) ==
    LET later == {j \in subjects : j > i}
    IN  IF later = {} THEN n + 1 ELSE Min(later)

NextSubject(lines, sect, i) == NextAmong(SubjectsIn(lines, sect), Len(lines), i)

\* line j is a reference-number line: read, no subject line, 'Event ' first
\* after the indentation
ReferenceAt(lines, sect, j) ==
    /\ LET text == Strip(lines[j])
       IN  Len(text) >= 6 /\ SubSeq(text, 1, 6) = <<"E","v","e","n","t"," ">>
    /\ lines[j][1] \notin UpperCase
    /\ ReadAt(lines, sect, j)

\* the positions of the reference-number lines of the entry that the subject
\* line i starts, subjects being the positions of the subject lines
ReferencesOf(lines, sect, subjects, i) ==
    LET next == NextAmong(subjects, Len(lines), i)
    IN  {j \in (i + 1)..(next - 1) : ReferenceAt(lines, sect, j)}

\* C14: a step of the scan leaves every entry of the output list as it is
\* and adds entries at the end of the list only
C14_EmittedEntriesAreFrozen ==
    [][/\ Len(skaters') >= Len(skaters)
       /\ SubSeq(skaters', 1, Len(skaters)) = skaters]_vars

\* C14 witness: an entry was emitted with the status 'pending', and a status
\* line read afterwards went to the next entry
C14_Witness ==
    /\ pc = "reading"
    /\ section = SectionAll
    /\ doc = <<LnSmithJohn, LnEvent12, LnLee, LnStatusFull>>
    /\ Len(skaters) = 1
    /\ skaters[1].gallery_status = "pending"
    /\ skaters[1].net_amount = None
    /\ current_skater /= None
    /\ current_skater[1].gallery_status = "purchased"

\* header lines with the section name each one gives
HeaderExamples ==
    {[line |-> LnHeaderRequested, name |-> SectionRequested],
     [line |-> LnHeaderUnrequested, name |-> SectionUnrequested],
     [line |-> LnHeaderEmail, name |-> <<"E","m","a","i","l",":"," ","a","@","b">>]}

\* C15: a step that reads a header line changes the current section name
\* and nothing else: the output list and the current entry stay as they are,
\* so the lines read later still go to that entry; and the section of the
\* current entry is the section name that was current when its subject line
\* was read, whatever headers were read since
C15_HeaderOnlySetsSection ==
    [][(pc = "reading" /\ Len(doc') = Len(doc) + 1) =>
          /\ \A h \in HeaderExamples :
                doc'[Len(doc')] = h.line =>
                    /\ UNCHANGED <<skaters, current_skater>>
                    /\ current_section_name' = Some(h.name)
                    /\ pc' = "reading"
          /\ (pc' = "reading" /\ SubjectsIn(doc', section) /= {}) =>
                LET started == CHOOSE i \in SubjectsIn(doc', section) :
                                   \A j \in SubjectsIn(doc', section) : j <= i
                IN  /\ current_skater' /= None
                    /\ current_skater'[1].section = SectionAt(doc', started)
      ]_vars

\* C15 witness: a reference line read after a second header went to the entry
\* started under the first header, whose section is still the first one
C15_Witness ==
    /\ pc = "reading"
    /\ section = SectionAll
    /\ doc = <<LnHeaderRequested, LnSmithJohn, LnHeaderUnrequested, LnEvent3>>
    /\ current_section_name = Some(SectionUnrequested)
    /\ current_skater /= None
    /\ current_skater[1].events = <<3>>
    /\ current_skater[1].section = Some(SectionRequested)

\* the positions, in ascending order, of the subject lines whose entry is to
\* be in the output list: the entry has a reference-number line, and the
\* next subject line or (closed) the end of the document has been reached
DueSubjects(lines, sect, closed) ==
    LET subjects == SubjectsIn(lines, sect)
    IN  SelectSeq([i \in 1..Len(lines) |-> i],
                  LAMBDA i : /\ i \in subjects
                             /\ (closed \/ \E j \in subjects : j > i)
                             /\ ReferencesOf(lines, sect, subjects, i) /= {})

\* C16: during the scan and at its end, the output list holds one entry for
\* each subject line that has a reference-number line and has been followed
\* by another subject line or by the end of the document, in the order of
\* the subject lines, and no other entry; while the scan goes on, the
\* current entry is the one of the last subject line read
C16_OneEntryPerSubjectLine ==
    pc \in {"reading", "done"} =>
        LET due == DueSubjects(doc, section, pc = "done")
            subjects == SubjectsIn(doc, section)
        IN  /\ Len(skaters) = Len(due)
            /\ \A k \in 1..Len(due) :
                  <<skaters[k].first_name, skaters[k].last_name>>
                      = parse_skater_name(RStrip(doc[due[k]]))
            /\ (subjects = {}) <=> (current_skater = None)
            /\ subjects /= {} =>
                  LET last == CHOOSE i \in subjects : \A j \in subjects : j <= i
                  IN  <<current_skater[1].first_name, current_skater[1].last_name>>
                          = parse_skater_name(RStrip(doc[last]))

\* C16 witness: two subject lines, each with a reference line: the first
\* entry was emitted at the second subject line, the second at the end
C16_Witness ==
    /\ pc = "done"
    /\ section = SectionAll
    /\ doc = <<LnSmithJohn, LnEvent12, LnLee, LnEvent12>>
    /\ Len(skaters) = 2
    /\ skaters[1].last_name = NameSmith
    /\ skaters[2].last_name = NameLee

\* C17: a line that fits two rules has the effect of the earlier one only.
\* '## Email: a@b' is a header: the current entry is untouched.  An
\* un-indented 'Event 3' is a subject line: it starts an entry named 'Event'
\* '3' without a reference.  '   Event 3 Email: a@b' is a reference line: 3
\* is appended and the contact stays.  '   Email: a@b Status: Sent' is a
\* contact line: the status stays.  '   Status: Sent Note: rush' is a status
\* line: no note is added.
C17_FirstMatchingRuleOnly ==
    [][(pc = "reading" /\ Len(doc') = Len(doc) + 1) =>
          LET raw == doc'[Len(doc')]
              read == section = SectionAll \/ current_section_name = Some(section)
              entry == current_skater[1]
          IN  /\ raw = LnHeaderEmail =>
                    /\ UNCHANGED <<skaters, current_skater>>
                    /\ pc' = "reading"
              /\ (raw = LnEventPlain /\ read) =>
                    /\ current_skater' =
                           Some([first_name |-> <<"3">>,
                                 last_name |-> <<"E","v","e","n","t">>,
                                 events |-> <<>>,
                                 email |-> None,
                                 gallery_status |-> "pending",
                                 gross_amount |-> None,
                                 net_amount |-> None,
                                 notes |-> <<>>,
                                 section |-> current_section_name])
                    /\ current_section_name' = current_section_name
                    /\ pc' = "reading"
              /\ (raw = LnEventEmail /\ read /\ current_skater /= None) =>
                    /\ current_skater' = Some([entry EXCEPT !.events = Append(@, 3)])
                    /\ UNCHANGED <<skaters, current_section_name>>
                    /\ pc' = "reading"
              /\ (raw = LnEmailStatus /\ read /\ current_skater /= None) =>
                    /\ current_skater' =
                           Some([entry EXCEPT !.email =
                                    Some(<<"a","@","b"," ","S","t","a","t","u","s",":"," ",
                                           "S","e","n","t">>)])
                    /\ UNCHANGED <<skaters, current_section_name>>
                    /\ pc' = "reading"
              /\ (raw = LnStatusNote /\ read /\ current_skater /= None) =>
                    /\ current_skater' =
                           Some([entry EXCEPT !.gallery_status = "sent",
                                              !.gross_amount = None,
                                              !.net_amount = None])
                    /\ UNCHANGED <<skaters, current_section_name>>
                    /\ pc' = "reading"
      ]_vars

\* C17 witness: a reference line with 'Email:' and a contact line with
\* 'Status:' were read for an entry, then an un-indented 'Event 3' closed it
C17_Witness ==
    /\ pc = "reading"
    /\ section = SectionAll
    /\ doc = <<LnSmithJohn, LnEventEmail, LnEmailStatus, LnEventPlain>>
    /\ Len(skaters) = 1
    /\ skaters[1].events = <<3>>
    /\ skaters[1].gallery_status = "pending"
    /\ current_skater /= None
    /\ current_skater[1].last_name = <<"E","v","e","n","t">>
    /\ current_skater[1].events = <<>>

\* the document without the lines, headers apart, that come before its
\* first subject line
DropOrphans(lines, sect) ==
    LET first == NextSubject(lines, sect, 0)
    IN  SelectSeq([i \in 1..Len(lines) |-> <<i, lines[i]>>],
                  LAMBDA il : il[1] >= first \/ HeaderAt(lines, il[1]))

\* C18: as long as no subject line has been read, whatever reference,
\* contact, status and note lines were read, there is no entry, in the list
\* or being accumulated, and the scan has not raised; and the list returned
\* is the one returned for the document without these lines
C18_LinesWithoutEntryIgnored ==
    /\ (/\ SubjectsIn(doc, section) = {}
        /\ \E i \in 1..Len(doc) : ReadAt(doc, section, i)) =>
          /\ skaters = <<>>
          /\ current_skater = None
          /\ pc /= "raised"
    /\ pc = "done" =>
          LET kept == DropOrphans(doc, section)
              result == parse_markdown([i \in 1..Len(kept) |-> kept[i][2]], section)
          IN  ~result.raised /\ result.skaters = skaters

\* C18 witness: a reference line and a contact line come before the first
\* subject line; the entry returned has its own reference and no contact
C18_Witness ==
    /\ pc = "done"
    /\ section = SectionAll
    /\ doc = <<LnEvent12, LnEmail, LnSmithJohn, LnEvent12>>
    /\ Len(skaters) = 1
    /\ skaters[1].events = <<12>>
    /\ skaters[1].email = None

\* the well-formed reference-number lines with the integer each one names
ReferenceExamples ==
    EventExamples \cup {[line |-> LnEventEmail, k |-> 3]}

\* the integers of the reference-number lines of the entry that the subject
\* line i starts, in the order of the lines
ReferenceNumbers(lines, sect, subjects, i) ==
    LET refs == ReferencesOf(lines, sect, subjects, i)
        at == SelectSeq([j \in 1..Len(lines) |-> j], LAMBDA j : j \in refs)
    IN  [n \in 1..Len(at) |-> (CHOOSE ex \in ReferenceExamples : ex.line = lines[at[n]]).k]

\* C19: the reference list of every entry of the output list, and of the
\* entry being accumulated, holds the integers of the entry's reference-number
\* lines: one element for each line, in document order, repeated numbers kept
C19_ReferencesInDocumentOrder ==
    pc \in {"reading", "done"} =>
        LET due == DueSubjects(doc, section, pc = "done")
            subjects == SubjectsIn(doc, section)
        IN  /\ Len(skaters) = Len(due)
            /\ \A k \in 1..Len(due) :
                  skaters[k].events = ReferenceNumbers(doc, section, subjects, due[k])
            /\ subjects /= {} =>
                  LET last == CHOOSE i \in subjects : \A j \in subjects : j <= i
                  IN  current_skater[1].events = ReferenceNumbers(doc, section, subjects, last)

\* C19 witness: the reference lines 3, 12 and 3 again give [3, 12, 3]
C19_Witness ==
    /\ pc = "done"
    /\ section = SectionAll
    /\ doc = <<LnSmithJohn, LnEvent3, LnEvent12, LnEvent3>>
    /\ Len(skaters) = 1
    /\ skaters[1].events = <<3, 12, 3>>

\* contact lines with the contact each one gives: the text after 'Email:'
\* without the whitespace around it, None when nothing is left
ContactExamples ==
    {[line |-> LnEmail, email |-> Some(<<"a","@","b">>)],
     [line |-> LnEmailSecond, email |-> Some(<<"c","@","d">>)],
     [line |-> LnEmailEmpty, email |-> None]}

\* C20: a contact line read for an entry makes the entry's contact the
\* trimmed text after 'Email:' when there is such a text, and makes it None
\* when there is none; it changes nothing else
C20_ContactIsTrimmedText ==
    [][(/\ pc = "reading"
        /\ Len(doc') = Len(doc) + 1
        /\ current_skater /= None
        /\ (section = SectionAll \/ current_section_name = Some(section))) =>
          \A ex \in ContactExamples :
              doc'[Len(doc')] = ex.line =>
                  /\ current_skater' = Some([current_skater[1] EXCEPT !.email = ex.email])
                  /\ UNCHANGED <<skaters, current_section_name>>
                  /\ pc' = "reading"
      ]_vars

\* C20 witness: 'Email:' with nothing after it left the contact unset, then
\* a line with tabs around 'c@d' set it to 'c@d'
C20_Witness ==
    /\ pc = "reading"
    /\ section = SectionAll
    /\ doc = <<LnSmithJohn, LnEvent3, LnEmailEmpty, LnEmailSecond>>
    /\ current_skater /= None
    /\ current_skater[1].email = Some(<<"c","@","d">>)

\* subject lines with the names each one gives: one token is both names; of
\* several tokens the first is the last name and the rest of the line, as
\* written, the first name
NameExamples ==
    {[line |-> LnLee, last |-> NameLee, first |-> NameLee],
     [line |-> LnSmithJohn, last |-> NameSmith, first |-> NameJohn],
     [line |-> LnVanDykeAnn, last |-> <<"V","a","n">>,
      first |-> <<"D","y","k","e"," ","A","n","n">>],
     [line |-> LnLeeTabAnn, last |-> NameLee,
      first |-> <<"A","n","n"," ","M","a","r","i","e">>],
     [line |-> LnEventPlain, last |-> <<"E","v","e","n","t">>, first |-> <<"3">>]}

\* C22: a subject line that is read starts an entry with the names of the
\* line, and does not raise: a single token T gives first name T and last
\* name T; two or more tokens give the first token as last name and the whole
\* remainder as first name
C22_NamesOfSubjectLine ==
    [][(/\ pc = "reading"
        /\ Len(doc') = Len(doc) + 1
        /\ (section = SectionAll \/ current_section_name = Some(section))) =>
          \A ex \in NameExamples :
              doc'[Len(doc')] = ex.line =>
                  /\ pc' = "reading"
                  /\ current_skater' /= None
                  /\ current_skater'[1].first_name = ex.first
                  /\ current_skater'[1].last_name = ex.last
      ]_vars

\* C22 witness: the subject line 'Lee' gave an entry named 'Lee' 'Lee'
C22_Witness ==
    /\ pc = "done"
    /\ section = SectionRequested
    /\ doc = <<LnHeaderRequested, LnLee, LnEvent12>>
    /\ Len(skaters) = 1
    /\ skaters[1].first_name = NameLee
    /\ skaters[1].last_name = NameLee

\* the status, gross and net of an entry
StatusOf(entry) == <<entry.gallery_status, entry.gross_amount, entry.net_amount>>

\* the status, gross and net of an entry go together
StatusConsistent(entry) ==
    /\ entry.gallery_status \in {"pending", "sent", "purchased"}
    /\ entry.gallery_status \in {"pending", "sent"} =>
          (entry.gross_amount = None /\ entry.net_amount = None)
    /\ entry.gross_amount /= None =>
          (entry.net_amount /= None /\ entry.gallery_status = "purchased")

\* status lines with the status, gross and net each one gives
StatusLineExamples ==
    {[line |-> LnStatusFull,
      triple |-> <<"purchased", Some([m |-> 45, e |-> 0]), Some([m |-> 3825, e |-> 2])>>],
     [line |-> LnStatusShort,
      triple |-> <<"purchased", None, Some([m |-> 20, e |-> 0])>>],
     [line |-> LnStatusSent, triple |-> <<"sent", None, None>>]}

\* C27: the current entry and every emitted entry have a status among
\* 'pending', 'sent', 'purchased'; with 'pending' or 'sent' gross and net are
\* unset; a gross that is set comes with a net that is set and the status
\* 'purchased'. A status line read for the current entry replaces the three
\* together: after it they are what that line alone gives
C27_StatusAndAmountsTogether ==
    /\ current_skater /= None => StatusConsistent(current_skater[1])
    /\ \A n \in 1..Len(skaters) : StatusConsistent(skaters[n])
    /\ (/\ pc = "reading"
        /\ doc /= <<>>
        /\ current_skater /= None
        /\ (section = SectionAll \/ current_section_name = Some(section))) =>
          \A ex \in StatusLineExamples :
              doc[Len(doc)] = ex.line => StatusOf(current_skater[1]) = ex.triple

\* C27 witness: an entry was purchased for 45.00 (net 38.25), a later status
\* line said 'Sent', and the entry was emitted as sent without amounts
C27_Witness ==
    /\ pc = "done"
    /\ doc = <<LnLeeTabAnn, LnEvent3, LnStatusFull, LnStatusSent>>
    /\ Len(skaters) = 1
    /\ StatusOf(skaters[1]) = <<"sent", None, None>>

\* an entry without its 'section' key
WithoutSection(entry) == [f \in DOMAIN entry \ {"section"} |-> entry[f]]

\* C28: with a section filter other than 'All', the parse_markdown of
\* src/import_skater_requests.py returns, for the document read, the entries
\* the parse_markdown of src/scripts/import_skater_requests.py returns, in
\* the same order and without the 'section' key, and raises where it raises
C28_EarlierParserAgrees ==
    (section /= SectionAll /\ pc \in {"done", "raised"}) =>
        LET old == parse_markdown_old(doc, section)
        IN  /\ old.raised <=> (pc = "raised")
            /\ pc = "done" =>
                  old.skaters = [n \in 1..Len(skaters) |-> WithoutSection(skaters[n])]

\* C28 witness: with the filter 'Requested', both parsers pass over the
\* lines under 'Unrequested' and return the one entry under 'Requested'
C28_Witness ==
    /\ pc = "done"
    /\ section = SectionRequested
    /\ doc = <<LnHeaderUnrequested, LnHeaderRequested, LnSmithJohn, LnEvent3>>
    /\ Len(skaters) = 1
    /\ Len(parse_markdown_old(doc, section).skaters) = 1
    /\ parse_markdown_old(doc, section).skaters[1].events = <<3>>

(***************************************************************************)
(* Properties of parse_status (SpecStatus).                                *)
(***************************************************************************)
\* C10: for a status text 'Purchased - $G (Net: $N)' parse_status returns
\* ('purchased', G, N), and for 'Purchased (Net: $N)' it returns
\* ('purchased', None, N), with the values the amounts denote
C10_PurchasedAmounts ==
    status_result /= None =>
        \A p \in StatusPrefixes, g \in Amounts, n \in Amounts :
            /\ status_line = p \o FullText(g.text, n.text)
                 => status_result[1] = <<"purchased", Some(g.value), Some(n.value)>>
            /\ status_line = p \o NetText(n.text)
                 => status_result[1] = <<"purchased", None, Some(n.value)>>

\* C10 witness: 'Status: Purchased - $45.00 (Net: $38.25)' was parsed
C10_Witness ==
    /\ status_line = KwStatus \o Sp \o FullText(<<"4","5",".","0","0">>, <<"3","8",".","2","5">>)
    /\ status_result = Some(<<"purchased", Some([m |-> 45, e |-> 0]), Some([m |-> 3825, e |-> 2])>>)

\* C11: for a status text that none of the three purchase patterns matches
\* (it holds no 'Purchased - $d (Net: $d)', no 'Purchased (Net: $d)' and no
\* '$d net' with d a number), parse_status returns ('sent', None, None); it
\* returns for every line, so it never raises
C11_UnrecognizedIsSent ==
    status_result /= None =>
        /\ \A p \in StatusPrefixes, t \in UnrecognizedTexts :
              status_line = p \o t => status_result[1] = <<"sent", None, None>>
        /\ (/\ SearchPurchasedFull(StatusText(status_line)) = None
            /\ SearchPurchasedNet(StatusText(status_line)) = None
            /\ SearchNetOnly(StatusText(status_line)) = None)
              => status_result[1] = <<"sent", None, None>>

\* C11 witness: 'Status: Purchased - $45.00', a purchase without the net
\* part, was parsed as 'sent'
C11_Witness ==
    /\ status_line = Indent \o KwStatus \o Sp \o PatFullHead \o Amt4500
    /\ status_result = Some(<<"sent", None, None>>)

\* C21: when several patterns match a status text, the result is the one of
\* the first in the order full purchase, net-only purchase, '$N net': a full
\* purchase wins over a '$N net' written before or after it and over a
\* net-only purchase, a net-only purchase wins over '$N net', and '$N net'
\* wins over the default 'sent'
C21_FirstPatternWins ==
    status_result /= None =>
        \A p \in StatusPrefixes, ex \in OverlapExamples :
            status_line = p \o ex.text => status_result[1] = ex.result

\* C21 witness: '$20.00 net Purchased - $45.00 (Net: $38.25)' gave the
\* amounts of the full purchase
C21_Witness ==
    /\ status_line = KwStatus \o Sp \o ShortText(Amt2000) \o Sp \o FullText(Amt4500, Amt3825)
    /\ status_result = Some(<<"purchased", Some([m |-> 45, e |-> 0]), Some([m |-> 3825, e |-> 2])>>)

(***************************************************************************)
(* Properties of the duplicate resolver (SpecResolve).                     *)
(***************************************************************************)
\* the positions of the records of rels with the pair key
Members(rels, key) == {i \in 1..Len(rels) : rels[i].in = key[1] /\ rels[i].out = key[2]}

\* the pairs of rels
Pairs(rels) == {<<rels[i].in, rels[i].out>> : i \in 1..Len(rels)}

\* C2: the plan a resolver run built holds, for every pair with n > 1
\* records, n - 1 entries with identifiers of that pair's records, and no
\* entry for a pair with one record; every entry names a record read
C2_PlanSizes ==
    deletion_plan /= None =>
        LET rels == analyzed[1]
            plan == deletion_plan[1]
        IN  /\ \A key \in Pairs(rels) :
                  LET ids == {rels[i].id : i \in Members(rels, key)}
                      n == Cardinality(Members(rels, key))
                      entries == {j \in 1..Len(plan) : plan[j].id \in ids}
                  IN  Cardinality(entries) = IF n > 1 THEN n - 1 ELSE 0
            /\ \A j \in 1..Len(plan) : \E i \in 1..Len(rels) : rels[i].id = plan[j].id

\* C2 witness: a pair with two records and a pair with one: one entry
C2_Witness ==
    /\ deletion_plan /= None
    /\ Len(analyzed[1]) = 3
    /\ Cardinality(Pairs(analyzed[1])) = 2
    /\ Len(deletion_plan[1]) = 1

\* C3: the record a recommendation keeps has a score >= the score of every
\* record it deletes, and where the scores are equal its created_at ('' when
\* there is none) is not after the deleted record's
C3_KeepIsBest ==
    \A g \in 1..Len(report) :
        \A d \in 1..Len(report[g].delete_records) :
            LET keep == report[g].keep_record
                del == report[g].delete_records[d]
            IN  /\ Score(keep) >= Score(del)
                /\ Score(keep) = Score(del)
                     => ~StrLess(CreatedAt(del), CreatedAt(keep))

\* C3 witness: the kept record was stored after a deleted record with the
\* same score and a later created_at, and another deleted record has a lower
\* score
C3_Witness ==
    /\ Len(report) = 1
    /\ Len(report[1].delete_records) = 2
    /\ \E d \in 1..2 :
          /\ Score(report[1].delete_records[d]) = Score(report[1].keep_record)
          /\ StrLess(CreatedAt(report[1].keep_record), CreatedAt(report[1].delete_records[d]))
          /\ report[1].keep_record.id > report[1].delete_records[d].id
    /\ \E d \in 1..2 : Score(report[1].delete_records[d]) < Score(report[1].keep_record)

\* no two records of rels have the same pair
DuplicateFree(rels) ==
    \A i, j \in 1..Len(rels) :
        (rels[i].in = rels[j].in /\ rels[i].out = rels[j].out) => i = j

\* C4: after a resolver run on a collection without duplicate pairs, the plan
\* the deletion step will load is empty (there is no plan file, or it holds
\* no entry)
C4_NoDuplicatesEmptyPlan ==
    (analyzed /= None /\ DuplicateFree(analyzed[1]))
        => (plan_file = None \/ plan_file = Some(<<>>))

\* C5: a resolver run that directly follows another one, the collection
\* unchanged, builds the same plan, prints the same recommendations and
\* leaves the same plan file
C5_SecondRunSamePlan ==
    [][rerun' =>
          /\ analyzed' = analyzed
          /\ deletion_plan' = deletion_plan
          /\ report' = report
          /\ plan_file' = plan_file]_vars

\* C5 witness: a second run on a collection with two deletions planned
C5_Witness ==
    /\ rerun
    /\ deletion_plan /= None
    /\ Len(deletion_plan[1]) = 2
    /\ plan_file = deletion_plan

\* C13: a resolver run issues no delete and no update: when it returns, the
\* relation collection is the one it read, whatever the plan it built holds
C13_ResolverOnlyPlans ==
    analyzed /= None => relations = analyzed[1]

\* C13 witness: a run planned the deletion of a record, and the record is
\* still in the collection
C13_Witness ==
    /\ analyzed /= None
    /\ ~rerun
    /\ deletion_plan /= None
    /\ Len(deletion_plan[1]) = 1
    /\ \E i \in 1..Len(relations) : relations[i].id = deletion_plan[1][1].id

\* C24: when a deletion step directly follows the resolver run that wrote
\* the plan and every delete succeeds, every pair of the collection is left
\* with exactly one record: the one the run recommended to keep for a pair
\* with duplicates, the pair's only record otherwise
C24_AppliedPlanLeavesOnePerPair ==
    [][(/\ analyzed /= None
        /\ deletion_plan /= None
        /\ cleanup_log' /= None
        /\ ~cleanup_log'[1].raised
        /\ cleanup_log'[1].failed = <<>>) =>
          \A key \in Pairs(relations) :
              LET left == Members(relations', key)
                  advice == {g \in 1..Len(report) : report[g].key = key}
              IN  /\ Cardinality(left) = 1
                  /\ \A i \in left :
                        /\ \A g \in advice : relations'[i] = report[g].keep_record
                        /\ \E j \in Members(relations, key) : relations[j] = relations'[i]
                  /\ (Cardinality(Members(relations, key)) > 1) => advice /= {}
      ]_vars

\* C24 witness: a plan of two deletions was applied in full to three records
\* of one pair, and one record is left
C24_Witness ==
    /\ cleanup_log /= None
    /\ ~cleanup_log[1].raised
    /\ cleanup_log[1].failed = <<>>
    /\ Len(cleanup_log[1].plan) = 2
    /\ cleanup_log[1].deleted_count = 2
    /\ Len(relations) = 1

\* C25: the plan a deletion step loads is the plan of the resolver run that
\* completed just before it, the empty plan when that run found no
\* duplicates (a step that finds no plan file at all is left aside)
C25_CleanupLoadsLatestPlan ==
    [][(/\ analyzed /= None
        /\ ~resolver_raised
        /\ cleanup_log' /= None
        /\ ~cleanup_log'[1].raised) =>
          cleanup_log'[1].plan = IF deletion_plan = None THEN <<>> ELSE deletion_plan[1]
      ]_vars

\* C26: a deletion step that loaded a plan sends one DELETE for each entry,
\* in plan order, whether or not earlier ones failed; the successful deletes
\* and the recorded failures add up to the length of the plan; and it
\* reports that all planned deletions succeeded exactly when none failed
C26_OneDeletePerEntry ==
    (cleanup_log /= None /\ ~cleanup_log[1].raised) =>
        LET log == cleanup_log[1]
        IN  /\ log.issued = [i \in 1..Len(log.plan) |-> log.plan[i].id]
            /\ log.deleted_count + Len(log.failed) = Len(log.plan)
            /\ log.all_succeeded <=> (log.failed = <<>>)
            /\ \A n \in 1..Len(log.failed) :
                  \E i \in 1..Len(log.plan) : log.plan[i].id = log.failed[n]

\* C26 witness: of two planned deletions the first failed and the second
\* was still made
C26_Witness ==
    /\ cleanup_log /= None
    /\ Len(cleanup_log[1].plan) = 2
    /\ cleanup_log[1].failed = <<cleanup_log[1].plan[1].id>>
    /\ cleanup_log[1].deleted_count = 1
    /\ ~cleanup_log[1].all_succeeded
    /\ Len(relations) = 2

(***************************************************************************)
(* Properties of the completeness score (SpecScore).                       *)
(***************************************************************************)
\* 1 when the value is not None, not 'NONE' and not the empty string, else 0
Counts(value) == IF value /= FieldNone /\ value /= "NONE" /\ value /= "" THEN 1 ELSE 0

\* C12: the score is 3 for a purchase_amount that is present, plus 2 for
\* notes, plus 2 for gallery_url, plus 1 for purchase_date, where present is
\* not None, not 'NONE' and not ''; it lies between 0 and 8 and no other field
\* of the record changes it
C12_ScoreIsWeightedSum ==
    score_result /= None =>
        /\ score_result[1] = 3 * Counts(score_record.purchase_amount)
                               + 2 * Counts(score_record.notes)
                               + 2 * Counts(score_record.gallery_url)
                               + Counts(score_record.purchase_date)
        /\ score_result[1] \in 0..8

\* C12 witness: purchase_amount 'NONE' and gallery_url '' earn nothing, notes
\* and purchase_date earn 2 + 1
C12_Witness ==
    /\ score_record.purchase_amount = "NONE"
    /\ score_record.notes = " "
    /\ score_record.gallery_url = ""
    /\ score_record.purchase_date = "45.00"
    /\ score_result = Some(3)

(***************************************************************************)
(* Properties of the resolver on incomplete records (SpecPartial).         *)
(***************************************************************************)
\* a record of rels lacks its identifier, its subject or its target
SomeRecordIncomplete(rels) ==
    \E i \in 1..Len(rels) : rels[i].id = 0 \/ rels[i].in = 0 \/ rels[i].out = 0

\* C23: a resolver run on a collection with an incomplete record ends with
\* an error, or at least leaves no plan file: it does not complete with a
\* plan computed from the other records
C23_IncompleteRecordFails ==
    (analyzed /= None /\ SomeRecordIncomplete(analyzed[1]))
        => (resolver_raised \/ plan_file = None)

(***************************************************************************)
(* Properties of import_to_surrealdb (SpecImport).                         *)
(***************************************************************************)
\* no two rows of the table have the same id
UniqueIds(table) ==
    \A a, b \in 1..Len(table) : table[a].id = table[b].id => a = b

\* the number of relations of the table from skater s to event e
RelationsOf(table, s, e) ==
    Cardinality({n \in 1..Len(table) : table[n].in = s /\ table[n].out = e})

\* the number of (entry, reference) occurrences of the list that name
\* skater s and event e
OccurrencesOf(list, s, e) ==
    Cardinality({o \in Occurrences(list) :
                    /\ SkaterId(list[o[1]]) = s
                    /\ EventId(CompId(CompetitionName), list[o[1]].events[o[2]]) = e})

\* what holds after every import run
AfterImport ==
    /\ UniqueIds(db_competition) /\ UniqueIds(db_skater) /\ UniqueIds(db_event)
    /\ (import_log /= None /\ ~import_log[1].raised) =>
          import_log[1].total_relations + import_log[1].relation_errors
              + import_log[1].event_errors = Cardinality(Occurrences(import_list))
    /\ (import_clean /\ import_runs > 0) =>
          /\ Len(db_competition) = 1
          /\ {db_skater[n].id : n \in 1..Len(db_skater)} =
                {SkaterId(import_list[i]) : i \in 1..Len(import_list)}
          /\ \A n \in 1..Len(db_skater), m \in 1..Len(db_event) :
                RelationsOf(competed_in, db_skater[n].id, db_event[m].id) =
                    import_runs * OccurrencesOf(import_list, db_skater[n].id, db_event[m].id)
          /\ Len(competed_in) = import_runs * Cardinality(Occurrences(import_list))

\* C29: an import run sends one RELATE for each (entry, reference)
\* occurrence whose event insert did not fail, and each RELATE that does not
\* fail adds a relation whether or not the pair has one; competition, skater
\* and event rows are one per id.  After k runs without a failure there are
\* k relations for each occurrence of a (skater, event) pair, and the count
\* a run reports is the number of relations that run added
C29_RelationPerOccurrence ==
    [][/\ AfterImport'
       /\ import_log' /= None
       /\ Len(competed_in') = Len(competed_in) + import_log'[1].total_relations
       /\ \A n \in 1..Len(competed_in) : competed_in'[n] = competed_in[n]
      ]_ivars

\* C29 witness: the entry that names event 3 twice, imported twice without
\* a failure: one skater row, one event row, four relations
C29_Witness ==
    /\ import_list = <<EntTwice>>
    /\ import_runs = 2
    /\ import_clean
    /\ Len(db_skater) = 1
    /\ Len(db_event) = 1
    /\ Len(competed_in) = 4
    /\ import_log = Some([raised |-> FALSE, skater_errors |-> 0, event_errors |-> 0,
                          relation_errors |-> 0, total_relations |-> 2])

(***************************************************************************)
(* Properties of MCPRunner.send_request (SpecRunner).                      *)
(***************************************************************************)
\* the calls made without an explicit id
AutoCalls == SelectSeq(calls, LAMBDA c : c.auto)

\* a line that carries the id n as a JSON number
CarriesId(line, n) == line.id /= None /\ line.id[1].t = "int" /\ line.id[1].v = n

\* what holds of the calls made so far
CallsAsSent ==
    /\ \A k \in 1..Len(calls) :
         LET c == calls[k]
         IN  /\ c.outcome = "returned" =>
                   (c.response /= None /\ CarriesId(c.response[1], c.id))
             /\ c.outcome /= "returned" => c.response = None
             /\ \A n \in 1..Len(c.discarded) : ~CarriesId(c.discarded[n], c.id)
             /\ c.outcome = "eof" => (server_closed /\ pipe = <<>>)
    /\ \A k \in 1..Len(AutoCalls) : AutoCalls[k].id = k
    /\ (\A k \in 1..Len(calls) : calls[k].auto) =>
          \A k \in 1..Len(calls) :
              (calls[k].outcome = "returned" /\ calls[k].response[1].kind = "response") =>
                  calls[k].response[1].answers = k

====
